---- MODULE Spec2Model ----
(***************************************************************************)
(* Verification model of the CDE metadata validator (crn-meta-validate).   *)
(*                                                                         *)
(* Cells, labels, patterns and report lines are TLA+ strings; the Python   *)
(* string operations used by the code (strip, startswith, slicing, regex   *)
(* full match, numeric parsing, join) are computed character by character. *)
(*                                                                         *)
(* Two values of the Python side have no string of their own and are       *)
(* written as reserved strings that no table cell or rule can hold:        *)
(*   PD_NA  the pandas missing value pd.NA of a "string" column,           *)
(*   None   Python's None.                                                 *)
(***************************************************************************)
EXTENDS Integers, Sequences, FiniteSets, TLC

VARIABLES
    cde_rules,             \* specific_cde_df: the rules of the selected table
    raw_df,                \* raw_tables_before_fill[selected_table_name]
    column_choices,        \* missing_value_choices[table]["required"/"optional"]
    enum_choice,           \* missing_value_choices[table]["required_enum_choice"]
    prepared_df,           \* st.session_state["prepared_tables"][table]
    validated_output_df,   \* table returned by validate_table
    report_entries,        \* ReportCollector.entries of the run
    findings,              \* the lists validate_table collects
    errors_counter,        \* returned by validate_table
    warnings_counter,      \* returned by validate_table
    sanitized_offered,     \* main: the sanitized CSV download button is live
    previous_run,          \* outputs of the preceding validation of the same inputs
    pc,                    \* position of main() in the step 4 / step 5 flow
    fill_call,             \* one call of the step-4 fill of a required column
    util_call              \* one call of a function of utils/ with its arguments and results

vars == <<cde_rules, raw_df, column_choices, enum_choice, prepared_df,
          validated_output_df, report_entries, findings, errors_counter,
          warnings_counter, sanitized_offered, previous_run, pc, fill_call, util_call>>

pipeline_vars == <<cde_rules, raw_df, column_choices, enum_choice, prepared_df,
                   validated_output_df, report_entries, findings, errors_counter,
                   warnings_counter, sanitized_offered, previous_run, pc>>

-----------------------------------------------------------------------------
(* Bounds of the model *)

MaxRows == 2

-----------------------------------------------------------------------------
(* Reserved values and program constants *)

PD_NA == "<NA>"

None == "<None>"

NULL_SENTINEL == "NA"

NULL == NULL_SENTINEL

NULL_LIKE_STRINGS == {"none", "None", "nan", "NaN", "NAN", "N/A", "n/a"}

FILL_LABEL_PREFIX == "Fill out with \""

-----------------------------------------------------------------------------
(* Python string operations *)

Char(s, i) == SubSeq(s, i, i)

Whitespace == {" ", "\t", "\n", "\r", "\f"}

Digits == {"0", "1", "2", "3", "4", "5", "6", "7", "8", "9"}

\* re: fullmatch(r"\s*", s)
IsBlankText(s) == \A i \in 1..Len(s) : Char(s, i) \in Whitespace

\* str.strip()
Strip(s) ==
    LET keep == {i \in 1..Len(s) : Char(s, i) \notin Whitespace}
    IN  IF keep = {} THEN ""
        ELSE LET first == CHOOSE i \in keep : \A j \in keep : i <= j
                 last  == CHOOSE i \in keep : \A j \in keep : j <= i
             IN  SubSeq(s, first, last)

\* str.startswith(prefix)
StartsWith(s, prefix) ==
    Len(s) >= Len(prefix) /\ SubSeq(s, 1, Len(prefix)) = prefix

\* str.endswith(suffix)
EndsWith(s, suffix) ==
    Len(s) >= Len(suffix) /\ SubSeq(s, Len(s) - Len(suffix) + 1, Len(s)) = suffix

\* s[start:-1] with start counted from 0
SliceToLast(s, start) == SubSeq(s, start + 1, Len(s) - 1)

\* str.lower()
UpperCase == "ABCDEFGHIJKLMNOPQRSTUVWXYZ"

LowerCase == "abcdefghijklmnopqrstuvwxyz"

LowerTable ==
    [ch \in {Char(UpperCase, i) : i \in 1..Len(UpperCase)} |->
        Char(LowerCase, CHOOSE i \in 1..Len(UpperCase) : Char(UpperCase, i) = ch)]

LowerChar(ch) == IF ch \in DOMAIN LowerTable THEN LowerTable[ch] ELSE ch

Lower(s) ==
    LET F[i \in 0..Len(s)] == IF i = 0 THEN "" ELSE F[i - 1] \o LowerChar(Char(s, i))
    IN  F[Len(s)]

\* ', '.join(items)
RECURSIVE JoinComma(_)
JoinComma(items) ==
    IF Len(items) = 0 THEN ""
    ELSE IF Len(items) = 1 THEN items[1]
    ELSE items[1] \o ", " \o JoinComma(Tail(items))

\* x in list
InList(x, list) == \E i \in 1..Len(list) : list[i] = x

-----------------------------------------------------------------------------
(* utils/find_missing_values.py *)

IsMissingCell_empty_only(cell) == cell = PD_NA \/ cell = ""

\* one cell of compute_missing_mask: isna() | fullmatch(r"\s*")
IsMissingCell(cell) == cell = PD_NA \/ IsBlankText(cell)

compute_missing_mask_with_null_like(column_series) ==
    [i \in 1..Len(column_series) |->
        IsMissingCell(column_series[i]) \/ column_series[i] \in NULL_LIKE_STRINGS]

compute_missing_mask(column_series) ==
    [i \in 1..Len(column_series) |-> IsMissingCell(column_series[i])]

NormalizeCell_without_tokens(cell, sentinel) ==
    IF cell = PD_NA \/ IsBlankText(cell) THEN sentinel ELSE cell

\* one cell of normalize_null_like_series
NormalizeCell(cell, sentinel) ==
    LET after_blank == IF cell # PD_NA /\ IsBlankText(cell) THEN sentinel ELSE cell
        after_fillna == IF after_blank = PD_NA THEN sentinel ELSE after_blank
    IN  IF after_fillna \in NULL_LIKE_STRINGS THEN sentinel ELSE after_fillna

normalize_null_like_series_tokens_to_blank(column_series, sentinel) ==
    [i \in 1..Len(column_series) |->
        IF column_series[i] \in NULL_LIKE_STRINGS THEN ""
        ELSE NormalizeCell(column_series[i], sentinel)]

normalize_null_like_series(column_series, sentinel) ==
    [i \in 1..Len(column_series) |-> NormalizeCell(column_series[i], sentinel)]

\* a table is [cols: the column names in order, nrows, cells: name -> column]
normalize_null_like_dataframe(dataframe, sentinel) ==
    [dataframe EXCEPT !.cells =
        [c \in DOMAIN dataframe.cells |->
            normalize_null_like_series(dataframe.cells[c], sentinel)]]

-----------------------------------------------------------------------------
(* app.py, step 4: applying a fill choice to one column *)

\* pandas Series.mask(mask, value)
SeriesMask(series, mask, value) ==
    [i \in 1..Len(series) |-> IF mask[i] THEN value ELSE series[i]]

\* Python truthiness of an optional string
Truthy(value) == value # None /\ value # ""

apply_fill_choice_radio_first(series, user_choice, fillnull_values, override_value) ==
    LET mask == compute_missing_mask(series)
        fill_value ==
            IF Truthy(user_choice)
            THEN IF StartsWith(user_choice, FILL_LABEL_PREFIX) /\ EndsWith(user_choice, "\"")
                 THEN SliceToLast(user_choice, Len(FILL_LABEL_PREFIX))
                 ELSE IF InList(user_choice, fillnull_values) THEN user_choice ELSE None
            ELSE None
    IN  IF fill_value # None
        THEN SeriesMask(series, mask, fill_value)
        ELSE IF override_value # None /\ Strip(override_value) # ""
             THEN SeriesMask(series, mask, override_value)
             ELSE series

\* fillnull_values is the list the safety net parses out of the FillNull text
apply_fill_choice(series, user_choice, fillnull_values, override_value) ==
    LET mask == compute_missing_mask(series)
        fill_value ==
            IF Truthy(user_choice)
            THEN IF StartsWith(user_choice, FILL_LABEL_PREFIX) /\ EndsWith(user_choice, "\"")
                 THEN SliceToLast(user_choice, Len(FILL_LABEL_PREFIX))
                 ELSE IF InList(user_choice, fillnull_values) THEN user_choice ELSE None
            ELSE None
    IN  IF override_value # None /\ Strip(override_value) # ""
        THEN SeriesMask(series, mask, override_value)
        ELSE IF fill_value = None
             THEN series
             ELSE SeriesMask(series, mask, fill_value)

\* the body of main's loop over required fields for one field:
\* "Precedence: Enum dropdown > Radio choice"
FillRequiredField(series, user_choice, enum_choice_value, fillnull_values) ==
    LET override_value == IF Truthy(enum_choice_value) THEN enum_choice_value ELSE None
    IN  IF Truthy(user_choice) \/ Truthy(override_value)
        THEN apply_fill_choice(series, user_choice, fillnull_values, override_value)
        ELSE series

\* the body of main's loop over optional fields for one field: no override
FillOptionalField(series, user_choice_opt, fillnull_values) ==
    IF Truthy(user_choice_opt)
    THEN apply_fill_choice(series, user_choice_opt, fillnull_values, None)
    ELSE series

\* help_menus.render_missing_values_section: the radio labels of a field
OptionLabels(fillnull_values) ==
    [i \in 1..Len(fillnull_values) |-> FILL_LABEL_PREFIX \o fillnull_values[i] \o "\""]

-----------------------------------------------------------------------------
(* utils/validate.py: the per-type cell checks of validate_table *)

\* set(list)
SetOf(list) == {list[i] : i \in 1..Len(list)}

\* pd.to_numeric(entries, errors="coerce").notna() for one cell:
\* an optional sign, digits, and at most one decimal point with digits around it
NumberBody(text) ==
    IF Len(text) > 0 /\ Char(text, 1) \in {"+", "-"} THEN SubSeq(text, 2, Len(text)) ELSE text

DotPositions(text) == {i \in 1..Len(text) : Char(text, i) = "."}

IsNumeric(cell) ==
    LET body == NumberBody(Strip(cell))
        dots == DotPositions(body)
    IN  /\ cell # PD_NA
        /\ Cardinality(dots) <= 1
        /\ \A i \in 1..Len(body) : Char(body, i) \in Digits \cup {"."}
        /\ \E i \in 1..Len(body) : Char(body, i) \in Digits

\* (numeric % 1) == 0 for one numeric cell: every digit after the point is 0
HasZeroFraction(cell) ==
    LET body == NumberBody(Strip(cell))
        dots == DotPositions(body)
    IN  \A d \in dots : \A i \in (d + 1)..Len(body) : Char(body, i) = "0"

\* the characters a class [lo-hi] of a pattern can name, in code point order
CodePointOrder ==
    "0123456789ABCDEFGHIJKLMNOPQRSTUVWXYZabcdefghijklmnopqrstuvwxyz"

OrdTable ==
    [ch \in {Char(CodePointOrder, i) : i \in 1..Len(CodePointOrder)} |->
        CHOOSE i \in 1..Len(CodePointOrder) : Char(CodePointOrder, i) = ch]

Ord(ch) == IF ch \in DOMAIN OrdTable THEN OrdTable[ch] ELSE 0

\* re.fullmatch(pattern, text) for the patterns "[lo-hi]+": re.error is raised
\* when the character set is not terminated
RegexRaises(pattern) ==
    /\ Len(pattern) > 0
    /\ Char(pattern, 1) = "["
    /\ \A i \in 1..Len(pattern) : Char(pattern, i) # "]"

RegexFullMatch(pattern, text) ==
    /\ Len(pattern) = 6
    /\ Char(pattern, 1) = "[" /\ Char(pattern, 3) = "-"
    /\ Char(pattern, 5) = "]" /\ Char(pattern, 6) = "+"
    /\ Len(text) > 0
    /\ \A i \in 1..Len(text) :
          /\ Ord(Char(text, i)) > 0
          /\ Ord(Char(pattern, 2)) <= Ord(Char(text, i))
          /\ Ord(Char(text, i)) <= Ord(Char(pattern, 4))

is_valid_regex_entry_sentinel_by_pattern(entry_value, pattern, fillnull_values) ==
    IF InList(entry_value, fillnull_values) THEN TRUE
    ELSE IF RegexRaises(pattern) THEN FALSE
    ELSE RegexFullMatch(pattern, entry_value)

is_valid_regex_entry_error_accepts(entry_value, pattern, fillnull_values) ==
    IF InList(entry_value, fillnull_values) THEN TRUE
    ELSE IF entry_value = NULL_SENTINEL THEN InList(entry_value, fillnull_values)
    ELSE IF RegexRaises(pattern) THEN TRUE
    ELSE RegexFullMatch(pattern, entry_value)

\* validate_table.is_valid_regex_entry
is_valid_regex_entry(entry_value, pattern, fillnull_values) ==
    IF InList(entry_value, fillnull_values) THEN TRUE
    ELSE IF entry_value = NULL_SENTINEL THEN InList(entry_value, fillnull_values)
    ELSE IF RegexRaises(pattern) THEN FALSE
    ELSE RegexFullMatch(pattern, entry_value)

is_valid_integer_entry_any_number(entry_value, fillnull_values) ==
    \/ entry_value \in SetOf(fillnull_values) \cup {NULL_SENTINEL}
    \/ IsNumeric(entry_value)

\* Integer branch: is_special | is_integer_numeric
is_valid_integer_entry(entry_value, fillnull_values) ==
    \/ entry_value \in SetOf(fillnull_values) \cup {NULL_SENTINEL}
    \/ IsNumeric(entry_value) /\ HasZeroFraction(entry_value)

\* Float branch: is_special | is_float_numeric
is_valid_float_entry(entry_value, fillnull_values) ==
    \/ entry_value \in SetOf(fillnull_values) \cup {NULL_SENTINEL}
    \/ IsNumeric(entry_value)

is_valid_enum_entry_declared_only(entry_value, valid_values, fillnull_values) ==
    entry_value \in SetOf(valid_values)

\* Enum branch: x in valid_and_fillnull_values
is_valid_enum_entry(entry_value, valid_values, fillnull_values) ==
    entry_value \in SetOf(valid_values \o fillnull_values)

\* a rule is [Field, Required, DataType, Validation, ValidValues, FillNull]:
\* Validation is the text of the Validation cell, ValidValues and FillNull are
\* what parse_literal_list returns for the Validation and FillNull cells
IsValidEntry(rule, entry_value) ==
    CASE rule.DataType = "Integer" -> is_valid_integer_entry(entry_value, rule.FillNull)
      [] rule.DataType = "Float"   -> is_valid_float_entry(entry_value, rule.FillNull)
      [] rule.DataType = "Enum"    ->
            is_valid_enum_entry(entry_value, rule.ValidValues, rule.FillNull)
      [] rule.DataType = "Regex"   ->
            is_valid_regex_entry(entry_value, Strip(rule.Validation), rule.FillNull)
      [] OTHER -> TRUE

\* invalid_mask of one column
InvalidMask(rule, entries) ==
    [i \in 1..Len(entries) |-> ~IsValidEntry(rule, entries[i])]

\* entries[invalid_mask].unique(): distinct values in order of first appearance
RECURSIVE Unique(_)
Unique(list) ==
    IF Len(list) = 0 THEN <<>>
    ELSE LET front == Unique(SubSeq(list, 1, Len(list) - 1))
             last == list[Len(list)]
         IN  IF InList(last, front) THEN front ELSE Append(front, last)

SelectMasked(entries, mask) ==
    LET F[i \in 0..Len(entries)] ==
            IF i = 0 THEN <<>>
            ELSE IF mask[i] THEN Append(F[i - 1], entries[i]) ELSE F[i - 1]
    IN  F[Len(entries)]

InvalidValues(rule, entries) == Unique(SelectMasked(entries, InvalidMask(rule, entries)))

-----------------------------------------------------------------------------
(* utils/validate.py: validate_table *)

opt_req(rule) == IF rule.Required = "Required" THEN "REQUIRED" ELSE "OPTIONAL"

my_str(x) == "'" \o x \o "'"

\* map(my_str, values)
QuoteAll(values) == [i \in 1..Len(values) |-> my_str(values[i])]

\* the orders in which Python can iterate over a set
RECURSIVE IterationOrders(_)
IterationOrders(S) ==
    IF S = {} THEN {<<>>}
    ELSE UNION {{<<x>> \o rest : rest \in IterationOrders(S \ {x})} : x \in S}

\* one iteration order of set(valid_values + fillnull_values) per rule
RECURSIVE SetIterations(_)
SetIterations(rules) ==
    IF Len(rules) = 0 THEN {<<>>}
    ELSE LET rule == Head(rules)
             orders == IF rule.DataType = "Enum"
                       THEN IterationOrders(SetOf(rule.ValidValues \o rule.FillNull))
                       ELSE {<<>>}
         IN  {<<order>> \o rest : order \in orders, rest \in SetIterations(Tail(rules))}

\* valstr: the "Expected" text of an invalid-value finding
ExpectedText(rule, valid_and_fillnull_values) ==
    LET fillnull_text == "(" \o JoinComma(QuoteAll(rule.FillNull)) \o ")"
    IN  CASE rule.DataType = "Integer" ->
                "int or NULL ('" \o NULL_SENTINEL \o "') or FillNull values " \o fillnull_text
          [] rule.DataType = "Float" ->
                "float or NULL ('" \o NULL_SENTINEL \o "') or FillNull values " \o fillnull_text
          [] rule.DataType = "Enum" -> JoinComma(QuoteAll(valid_and_fillnull_values))
          [] rule.DataType = "Regex" ->
                "Regex /" \o Strip(rule.Validation) \o "/ or FillNull values " \o fillnull_text
          [] OTHER -> ""

\* the data types validate_table checks cell by cell
CheckedTypes == {"Integer", "Float", "Enum", "Regex"}

HasColumn(dataframe, column) == column \in DOMAIN dataframe.cells

AddNullColumns_empty_text(dataframe, columns) ==
    [cols  |-> dataframe.cols \o columns,
     nrows |-> dataframe.nrows,
     cells |-> [c \in DOMAIN dataframe.cells \cup SetOf(columns) |->
                  IF c \in SetOf(columns)
                  THEN [i \in 1..dataframe.nrows |-> ""]
                  ELSE dataframe.cells[c]]]

\* df[column] = NULL for each column of the list, in order
AddNullColumns(dataframe, columns) ==
    [cols  |-> dataframe.cols \o columns,
     nrows |-> dataframe.nrows,
     cells |-> [c \in DOMAIN dataframe.cells \cup SetOf(columns) |->
                  IF c \in SetOf(columns)
                  THEN [i \in 1..dataframe.nrows |-> NULL]
                  ELSE dataframe.cells[c]]]

\* the Field of every rule of a list of rules, in rule order
FieldsOf(rules) == [i \in 1..Len(rules) |-> rules[i].Field]

\* build_bullet_missing_details_markdown
build_bullet_missing_details_markdown(column_name, column_type, table_name) ==
    column_type \o " column " \o column_name \o " is missing in " \o table_name

\* build_bullet_invalid_details_markdown
build_bullet_invalid_details_markdown(column_name, column_type, n_invalid_vals, invalid_descr, valid_descr) ==
    column_type \o " column " \o column_name \o " has " \o ToString(n_invalid_vals)
        \o " invalid values: Invalid values: " \o invalid_descr
        \o " Expected: " \o valid_descr

\* render_missing_columns: the entries it appends
render_missing_columns(table_name, missing_columns, total_columns, column_type_label) ==
    IF Len(missing_columns) = 0 THEN <<>>
    ELSE <<(<<"markdown",
              "**Missing " \o column_type_label \o " columns ("
                 \o ToString(Len(missing_columns)) \o "/" \o ToString(total_columns) \o "):**">>)>>
         \o [i \in 1..Len(missing_columns) |->
                <<"markdown",
                  build_bullet_missing_details_markdown(missing_columns[i],
                                                        column_type_label, table_name)>>]

\* render_invalid_values: the entries it appends
render_invalid_values(table_name, invalid_entries) ==
    IF Len(invalid_entries) = 0 THEN <<>>
    ELSE <<(<<"markdown",
              "Columns not matching CDE controlled vocabularies in " \o table_name \o ":">>)>>
         \o [i \in 1..Len(invalid_entries) |->
                <<"markdown",
                  build_bullet_invalid_details_markdown(
                      invalid_entries[i][2],
                      IF invalid_entries[i][1] = "REQUIRED" THEN "Required" ELSE "Optional",
                      invalid_entries[i][3], invalid_entries[i][5], invalid_entries[i][4])>>]

FindingsCounter_once_per_kind(missing_columns, invalid_columns) ==
    (IF Len(missing_columns) > 0 THEN 1 ELSE 0) + Len(invalid_columns)

\* errors_counter / warnings_counter: += 1 for each missing column of the
\* kind, += len(invalid columns of the kind)
FindingsCounter(missing_columns, invalid_columns) ==
    Len(missing_columns) + Len(invalid_columns)

\* validate_table; set_iteration is the order Python iterates each Enum
\* rule's set(valid_values + fillnull_values) in
validate_table(df_after_fill_arg, table_name, specific_cde_df, entries_before, set_iteration) ==
    LET df_for_missing_check == df_after_fill_arg
        df_after_fill == normalize_null_like_dataframe(df_after_fill_arg, NULL)
        Present(rule) == HasColumn(df_after_fill, rule.Field)
        IsRequired(rule) == opt_req(rule) = "REQUIRED"
        HasInvalid(rule) ==
            /\ Present(rule)
            /\ rule.DataType \in CheckedTypes
            /\ Len(InvalidValues(rule, df_after_fill.cells[rule.Field])) > 0
        HasNull(rule) ==
            /\ Present(rule)
            /\ HasColumn(df_for_missing_check, rule.Field)
            /\ \E i \in 1..df_for_missing_check.nrows :
                  compute_missing_mask(df_for_missing_check.cells[rule.Field])[i]
        total_required == Len(SelectSeq(specific_cde_df, IsRequired))
        total_optional == Len(specific_cde_df) - total_required
        missing_required ==
            FieldsOf(SelectSeq(specific_cde_df, LAMBDA r : IsRequired(r) /\ ~Present(r)))
        missing_optional ==
            FieldsOf(SelectSeq(specific_cde_df, LAMBDA r : ~IsRequired(r) /\ ~Present(r)))
        invalid_required ==
            FieldsOf(SelectSeq(specific_cde_df, LAMBDA r : IsRequired(r) /\ HasInvalid(r)))
        invalid_optional ==
            FieldsOf(SelectSeq(specific_cde_df, LAMBDA r : ~IsRequired(r) /\ HasInvalid(r)))
        rule_index(r) == CHOOSE i \in 1..Len(specific_cde_df) : specific_cde_df[i] = r
        invalid_rules == SelectSeq(specific_cde_df, HasInvalid)
        invalid_entries ==
            [k \in 1..Len(invalid_rules) |->
                LET rule == invalid_rules[k]
                    invalid_values == InvalidValues(rule, df_after_fill.cells[rule.Field])
                IN  <<opt_req(rule), rule.Field, Len(invalid_values),
                      ExpectedText(rule, set_iteration[rule_index(rule)]),
                      JoinComma(QuoteAll(invalid_values))>>]
        null_rules == SelectSeq(specific_cde_df, HasNull)
        null_columns ==
            [k \in 1..Len(null_rules) |->
                LET rule == null_rules[k]
                    mask == compute_missing_mask(df_for_missing_check.cells[rule.Field])
                IN  <<opt_req(rule), rule.Field,
                      Cardinality({i \in 1..Len(mask) : mask[i]})>>]
        invalid_cell_mask ==
            [c \in DOMAIN df_after_fill.cells |->
                IF \E i \in 1..Len(specific_cde_df) : specific_cde_df[i].Field = c
                THEN LET rule == CHOOSE r \in SetOf(specific_cde_df) : r.Field = c
                     IN  InvalidMask(rule, df_after_fill.cells[c])
                ELSE [i \in 1..df_after_fill.nrows |-> FALSE]]
        summary ==
            << IF Len(missing_required) > 0
               THEN <<"error", "See details below: " \o ToString(Len(missing_required))
                         \o " of " \o ToString(total_required)
                         \o " **required** columns are missing in " \o table_name \o "\n">>
               ELSE <<"success", "All " \o ToString(total_required)
                         \o " **required** columns are present in " \o table_name \o "\n">>,
               IF Len(missing_optional) > 0
               THEN <<"warning", "See details below: " \o ToString(Len(missing_optional))
                         \o " of " \o ToString(total_optional)
                         \o " **optional** columns are missing in " \o table_name \o "\n">>
               ELSE <<"success", "All " \o ToString(total_optional)
                         \o " **optional** columns are present in " \o table_name \o "\n">>,
               IF Len(invalid_required) > 0
               THEN <<"error", "See details below: " \o ToString(Len(invalid_required))
                         \o " of " \o ToString(total_required)
                         \o " **required** columns have invalid values in " \o table_name \o "\n">>
               ELSE <<"success", "No invalid values were found in required columns\n">>,
               IF Len(invalid_optional) > 0
               THEN <<"warning", "See details below: " \o ToString(Len(invalid_optional))
                         \o " of " \o ToString(total_optional)
                         \o " **optional** columns have invalid values in " \o table_name \o "\n">>
               ELSE <<"success", "No invalid values were found in optional columns\n">> >>
        missing_details ==
            IF Len(missing_required) + Len(missing_optional) > 0
            THEN <<(<<"markdown", "**Details of missing columns:**">>)>>
                 \o render_missing_columns(table_name, missing_required, total_required, "Required")
                 \o render_missing_columns(table_name, missing_optional, total_optional, "Optional")
            ELSE <<>>
        invalid_details ==
            IF Len(invalid_entries) > 0
            THEN <<(<<"markdown", "**Details of invalid values per column:**">>)>>
                 \o render_invalid_values(table_name, invalid_entries)
            ELSE <<>>
    IN  [df |-> AddNullColumns(AddNullColumns(df_after_fill, missing_required),
                               missing_optional),
         entries |-> entries_before \o summary \o missing_details \o invalid_details,
         errors_counter |-> FindingsCounter(missing_required, invalid_required),
         warnings_counter |-> FindingsCounter(missing_optional, invalid_optional),
         findings |-> [missing_required |-> missing_required,
                       missing_optional |-> missing_optional,
                       invalid_required |-> invalid_required,
                       invalid_optional |-> invalid_optional,
                       invalid_entries |-> invalid_entries,
                       null_columns |-> null_columns,
                       invalid_cell_mask |-> invalid_cell_mask]]

\* ReportCollector.get_log
get_log(entries) ==
    LET Line(entry) ==
            CASE entry[1] = "markdown"  -> entry[2] \o "\n"
              [] entry[1] = "error"     -> entry[2] \o "\n"
              [] entry[1] = "header"    -> "# " \o entry[2] \o "\n"
              [] entry[1] = "subheader" -> "## " \o entry[2] \o "\n"
              [] entry[1] = "divider"   ->
                    "------------------------------------------------------------\n"
              [] OTHER -> ""
        F[i \in 0..Len(entries)] == IF i = 0 THEN "" ELSE F[i - 1] \o Line(entries[i])
    IN  F[Len(entries)]

-----------------------------------------------------------------------------
(* The tables, rules and widget values the model explores *)

TABLE_NAME == "SUBJECT"

\* the rule fields of the table and a column the CDE does not know
FIELD_1 == "value"

FIELD_2 == "age"

EXTRA_COLUMN == "note"

PLACEHOLDER_LABEL == "Select an option"

FillNullOptions == {<<"Unknown">>, <<"NA", "Unknown">>}

RegexPatterns == {"[0-9]+", "[A-Z]+", "[0-9"}

Rule(field, required, datatype, validation, valid_values, fillnull) ==
    [Field |-> field, Required |-> required, DataType |-> datatype,
     Validation |-> validation, ValidValues |-> valid_values, FillNull |-> fillnull]

RequiredFlags == {"Required", "Optional"}

Field1Rules ==
    {Rule(FIELD_1, req, dt, "", <<>>, fn) :
        req \in RequiredFlags, dt \in {"Integer", "Float", "String"}, fn \in FillNullOptions}
    \cup {Rule(FIELD_1, req, "Enum", "['Bob']", <<"Bob">>, fn) :
        req \in RequiredFlags, fn \in {<<"Unknown">>, <<"NA">>}}
    \cup {Rule(FIELD_1, req, "Regex", pat, <<>>, fn) :
        req \in RequiredFlags, pat \in RegexPatterns, fn \in FillNullOptions}

Field2Rules ==
    {Rule(FIELD_2, req, "Integer", "", <<>>, <<"Unknown">>) : req \in RequiredFlags}

RuleSets == {<<r1, r2>> : r1 \in Field1Rules, r2 \in Field2Rules}

\* the rule sets the step 4 / step 5 flow is explored with
FlowRuleSets == {rules \in RuleSets : rules[1].DataType \in {"Integer", "Enum"}}

\* the cells of an uploaded file: text, or pd.NA where a row is shorter than the header
UploadedCells == {PD_NA, "", " ", "none", "30", "Bob"}

\* the cells of a table handed to validate_table
ValidatedCells == {"", "NA", "30", "2.5", "Bob", "Unknown"}

ConstantColumn(cell) == [i \in 1..MaxRows |-> cell]

\* the second rule column: all integer-like, or with cells that are not
Field2Columns == {ConstantColumn("4.0"), [i \in 1..MaxRows |-> IF i = 1 THEN "2.5" ELSE "30"]}

ExtraColumnCells == [i \in 1..MaxRows |-> IF i = 1 THEN "" ELSE "none"]

Table(cols, cells) == [cols |-> cols, nrows |-> MaxRows, cells |-> cells]

\* the tables over the two rule fields and the extra column, each rule column
\* present or not
TablesOver(Cells) ==
    {Table(<<FIELD_1, FIELD_2, EXTRA_COLUMN>>,
           [c \in {FIELD_1, FIELD_2, EXTRA_COLUMN} |->
               IF c = FIELD_1 THEN c1 ELSE IF c = FIELD_2 THEN c2 ELSE ExtraColumnCells]) :
        c1 \in [1..MaxRows -> Cells], c2 \in Field2Columns}
    \cup {Table(<<FIELD_1, EXTRA_COLUMN>>,
           [c \in {FIELD_1, EXTRA_COLUMN} |-> IF c = FIELD_1 THEN c1 ELSE ExtraColumnCells]) :
        c1 \in [1..MaxRows -> Cells]}
    \cup {Table(<<FIELD_2, EXTRA_COLUMN>>,
           [c \in {FIELD_2, EXTRA_COLUMN} |-> IF c = FIELD_2 THEN c2 ELSE ExtraColumnCells]) :
        c2 \in Field2Columns}
    \cup {Table(<<EXTRA_COLUMN>>, [c \in {EXTRA_COLUMN} |-> ExtraColumnCells])}

NoTable == [cols |-> <<>>, nrows |-> 0, cells |-> <<>>]

NoFindings ==
    [missing_required |-> <<>>, missing_optional |-> <<>>,
     invalid_required |-> <<>>, invalid_optional |-> <<>>,
     invalid_entries |-> <<>>, null_columns |-> <<>>, invalid_cell_mask |-> <<>>]

NoChoices == [f \in {FIELD_1, FIELD_2} |-> None]

NoEnumChoices == [f \in {FIELD_1, FIELD_2} |-> ""]

NoFillCall == [done |-> FALSE]

NoUtilCall == [op |-> "none"]

-----------------------------------------------------------------------------
(* app.py main(): step 4 (fill missing values) and step 5 (compare vs. CDE) *)

RuleOf(rules, field) == CHOOSE r \in SetOf(rules) : r.Field = field

\* "only 'required' is treated as required": the flag stripped and lower-cased
IsRequiredForFill(rule) == Lower(Strip(rule.Required)) = "required"

\* render_missing_values_section: the fields it shows widgets for
ColumnsWithMissing(rules, dataframe) ==
    {f \in {rules[i].Field : i \in 1..Len(rules)} :
        /\ HasColumn(dataframe, f)
        /\ \E i \in 1..dataframe.nrows : compute_missing_mask(dataframe.cells[f])[i]}

\* is_enum_required_column
IsEnumRequiredColumn(rule) ==
    IsRequiredForFill(rule) /\ rule.DataType = "Enum" /\ Strip(rule.Validation) # ""

\* what the dropdown of a required Enum column can return
DropdownValues(rule) == {None, PLACEHOLDER_LABEL} \cup SetOf(rule.ValidValues)

RadioLabels(rules) == UNION {SetOf(OptionLabels(rules[i].FillNull)) : i \in 1..Len(rules)}

AllDropdownValues(rules) == UNION {DropdownValues(rules[i]) : i \in 1..Len(rules)}

Init ==
    /\ cde_rules \in FlowRuleSets
    /\ raw_df \in TablesOver(UploadedCells)
    /\ column_choices = NoChoices
    /\ enum_choice = NoEnumChoices
    /\ prepared_df = NoTable
    /\ validated_output_df = NoTable
    /\ report_entries = <<>>
    /\ findings = NoFindings
    /\ errors_counter = 0
    /\ warnings_counter = 0
    /\ sanitized_offered = FALSE
    /\ previous_run = <<>>
    /\ pc = "step4"
    /\ fill_call = NoFillCall
    /\ util_call = NoUtilCall

\* render_missing_values_section for the required and the optional fields:
\* every column with missing cells gets the radio label the user picked, a
\* required Enum column also the dropdown value
RenderMissingValues ==
    /\ pc \in {"step4", "rendered"}
    /\ \E radio \in [ColumnsWithMissing(cde_rules, raw_df) -> RadioLabels(cde_rules)],
          dropdown \in [ColumnsWithMissing(cde_rules, raw_df) -> AllDropdownValues(cde_rules)] :
          /\ \A f \in ColumnsWithMissing(cde_rules, raw_df) :
                /\ InList(radio[f], OptionLabels(RuleOf(cde_rules, f).FillNull))
                /\ dropdown[f] \in DropdownValues(RuleOf(cde_rules, f))
          /\ column_choices' =
                [f \in DOMAIN column_choices |->
                    IF f \in ColumnsWithMissing(cde_rules, raw_df)
                    THEN radio[f] ELSE column_choices[f]]
          /\ enum_choice' =
                [f \in DOMAIN enum_choice |->
                    IF /\ f \in ColumnsWithMissing(cde_rules, raw_df)
                       /\ IsEnumRequiredColumn(RuleOf(cde_rules, f))
                    THEN IF dropdown[f] # PLACEHOLDER_LABEL THEN dropdown[f] ELSE ""
                    ELSE enum_choice[f]]
    /\ pc' = "rendered"
    /\ UNCHANGED <<cde_rules, raw_df, prepared_df, validated_output_df, report_entries,
                   findings, errors_counter, warnings_counter, sanitized_offered,
                   previous_run, fill_call, util_call>>

\* the "Apply missing-value choices" step: every required and optional rule
\* field present in the table is filled with its choice, then astype("string")
FillTable(dataframe, rules, radio_choices, enum_choices) ==
    [dataframe EXCEPT !.cells =
        [c \in DOMAIN dataframe.cells |->
            IF \E i \in 1..Len(rules) : rules[i].Field = c
            THEN LET rule == RuleOf(rules, c)
                 IN  IF IsRequiredForFill(rule)
                     THEN FillRequiredField(dataframe.cells[c], radio_choices[c],
                                            enum_choices[c], rule.FillNull)
                     ELSE FillOptionalField(dataframe.cells[c], radio_choices[c],
                                            rule.FillNull)
            ELSE dataframe.cells[c]]]

ApplyMissingValueChoices ==
    /\ pc = "rendered"
    /\ prepared_df' = FillTable(raw_df, cde_rules, column_choices, enum_choice)
    /\ pc' = "step5"
    /\ UNCHANGED <<cde_rules, raw_df, column_choices, enum_choice, validated_output_df,
                   report_entries, findings, errors_counter, warnings_counter,
                   sanitized_offered, previous_run, fill_call, util_call>>

\* what a validation run hands to the user
RunOutputs ==
    [report_content |-> get_log(report_entries),
     entries |-> report_entries,
     table |-> validated_output_df,
     errors_counter |-> errors_counter,
     warnings_counter |-> warnings_counter]

SanitizedDownloadOffered_no_findings(errors, warnings) == errors = 0 /\ warnings = 0

\* main: the live download button "if errors_counter == 0", the disabled mock otherwise
SanitizedDownloadOffered(errors, warnings) == errors = 0

\* step 5: a fresh ReportCollector, validate_table, the divider, and the
\* sanitized CSV download offered or withheld
RunValidation ==
    \E set_iteration \in SetIterations(cde_rules) :
        LET run == validate_table(prepared_df, TABLE_NAME, cde_rules, <<>>, set_iteration)
        IN  /\ validated_output_df' = run.df
            /\ report_entries' = Append(run.entries, <<"divider", None>>)
            /\ findings' = run.findings
            /\ errors_counter' = run.errors_counter
            /\ warnings_counter' = run.warnings_counter
            /\ sanitized_offered' =
                  SanitizedDownloadOffered(run.errors_counter, run.warnings_counter)

\* step 5 of main() on the prepared table, run again on the same table, choices
\* and rules when the app is restarted or the user comes back to the table
\* (pc "step5", "validated"); or validate_table called on a table by any caller
\* (pc "validate_table")
CompareVsCDE ==
    /\ pc \in {"step5", "validated", "validate_table"}
    /\ RunValidation
    /\ previous_run' = IF pc = "validated" THEN <<RunOutputs>> ELSE <<>>
    /\ pc' = CASE pc = "step5" -> "validated"
              [] pc = "validated" -> "validated_again"
              [] OTHER -> "returned"
    /\ UNCHANGED <<cde_rules, raw_df, column_choices, enum_choice, prepared_df, fill_call, util_call>>

Next == RenderMissingValues \/ ApplyMissingValueChoices \/ CompareVsCDE

Spec == Init /\ [][Next]_vars

-----------------------------------------------------------------------------
(* validate_table on any table: the caller hands it a table and the rules *)

InitValidate ==
    /\ cde_rules \in RuleSets
    /\ prepared_df \in TablesOver(ValidatedCells)
    /\ raw_df = prepared_df
    /\ column_choices = NoChoices
    /\ enum_choice = NoEnumChoices
    /\ validated_output_df = NoTable
    /\ report_entries = <<>>
    /\ findings = NoFindings
    /\ errors_counter = 0
    /\ warnings_counter = 0
    /\ sanitized_offered = FALSE
    /\ previous_run = <<>>
    /\ pc = "validate_table"
    /\ fill_call = NoFillCall
    /\ util_call = NoUtilCall

NextValidate == CompareVsCDE

SpecValidate == InitValidate /\ [][NextValidate]_vars

-----------------------------------------------------------------------------
(* the fill of one required column for any choice the session can hold *)

FillSeriesCells == {PD_NA, "", " ", "none", "30"}

FillUserChoices ==
    {None, "", "Fill out with \"Unknown\"", "Fill out with \"NA\"", "Unknown", "Other"}

FillEnumChoices == {None, "", " ", "Bob"}

InitFill ==
    /\ fill_call \in
          {[done |-> FALSE, series |-> sr, user_choice |-> uc, enum_choice_value |-> ec,
            fillnull_values |-> fn, result |-> <<>>] :
              sr \in [1..MaxRows -> FillSeriesCells], uc \in FillUserChoices,
              ec \in FillEnumChoices, fn \in FillNullOptions}
    /\ cde_rules = <<>>
    /\ raw_df = NoTable
    /\ column_choices = NoChoices
    /\ enum_choice = NoEnumChoices
    /\ prepared_df = NoTable
    /\ validated_output_df = NoTable
    /\ report_entries = <<>>
    /\ findings = NoFindings
    /\ errors_counter = 0
    /\ warnings_counter = 0
    /\ sanitized_offered = FALSE
    /\ previous_run = <<>>
    /\ pc = "fill"
    /\ util_call = NoUtilCall

FillColumn ==
    /\ pc = "fill"
    /\ ~fill_call.done
    /\ fill_call' = [fill_call EXCEPT
          !.done = TRUE,
          !.result = FillRequiredField(fill_call.series, fill_call.user_choice,
                                       fill_call.enum_choice_value,
                                       fill_call.fillnull_values)]
    /\ UNCHANGED <<pipeline_vars, util_call>>

NextFill == FillColumn

SpecFill == InitFill /\ [][NextFill]_vars

-----------------------------------------------------------------------------
(* Properties of validate_table (checked under SpecValidate) *)

Validated == pc = "returned"

RuleIndexes == 1..Len(cde_rules)

\* the rule's column is in the table handed to validate_table
ColumnGiven(i) == InList(cde_rules[i].Field, prepared_df.cols)

\* validate_table flagged at least one cell of the rule's column
ColumnFlagged(i) ==
    /\ ColumnGiven(i)
    /\ \E k \in 1..prepared_df.nrows : findings.invalid_cell_mask[cde_rules[i].Field][k]

RequiredRule(i) == cde_rules[i].Required = "Required"

C2_EveryRuleFieldIsAColumn ==
    Validated =>
        \A i \in RuleIndexes :
            LET field == cde_rules[i].Field
            IN  /\ InList(field, validated_output_df.cols)
                /\ field \in DOMAIN validated_output_df.cells
                /\ Len(validated_output_df.cells[field]) = prepared_df.nrows
                /\ ~ColumnGiven(i) =>
                      /\ \A k \in 1..prepared_df.nrows :
                            validated_output_df.cells[field][k] = "NA"
                      /\ InList(field, findings.missing_required) <=> RequiredRule(i)
                      /\ InList(field, findings.missing_optional) <=> ~RequiredRule(i)

\* a run in which an optional and a required rule field were both absent
C2_Witness ==
    /\ Validated
    /\ Len(findings.missing_required) = 1
    /\ Len(findings.missing_optional) = 1
    /\ \A i \in RuleIndexes :
          \A k \in 1..prepared_df.nrows :
              validated_output_df.cells[cde_rules[i].Field][k] = "NA"

\* the cell texts of the model that are numbers, and those with no fraction
NumberTexts == {"30", "2.5", "4.0"}

WholeNumberTexts == {"30", "4.0"}

\* the cells validate_table checks: the column after null normalization
CheckedColumn(i) == validated_output_df.cells[cde_rules[i].Field]

CellFlagged(i, k) == findings.invalid_cell_mask[cde_rules[i].Field][k]

Rows == 1..prepared_df.nrows

\* the invalid-value findings recorded for the rule's field
FindingsOf(i) ==
    {j \in 1..Len(findings.invalid_entries) :
        findings.invalid_entries[j][2] = cde_rules[i].Field}

\* the rule's field has exactly one finding, which counts and lists the
\* distinct offending values, or none when there is no offending value
OneFindingListing(i, offending) ==
    IF offending = {}
    THEN FindingsOf(i) = {}
    ELSE /\ Cardinality(FindingsOf(i)) = 1
         /\ \A j \in FindingsOf(i) :
               /\ findings.invalid_entries[j][3] = Cardinality(offending)
               /\ \E order \in IterationOrders(offending) :
                     findings.invalid_entries[j][5] = JoinComma(QuoteAll(order))

\* C3: a cell of an Integer or Float field is valid iff it is 'NA', or one
\* of the field's fill-values, or a number (for Integer: with zero
\* fractional part); the field has exactly one invalid-value finding listing
\* its distinct offending values when a cell is invalid, none otherwise.
C3_NumericCellsAndFinding ==
    Validated =>
        \A i \in RuleIndexes :
            (cde_rules[i].DataType \in {"Integer", "Float"} /\ ColumnGiven(i)) =>
                LET Valid(cell) ==
                        \/ cell = "NA"
                        \/ cell \in SetOf(cde_rules[i].FillNull)
                        \/ IF cde_rules[i].DataType = "Integer"
                           THEN cell \in WholeNumberTexts
                           ELSE cell \in NumberTexts
                    offending == {CheckedColumn(i)[k] : k \in {r \in Rows : ~Valid(CheckedColumn(i)[r])}}
                IN  /\ \A k \in Rows : CellFlagged(i, k) <=> ~Valid(CheckedColumn(i)[k])
                    /\ OneFindingListing(i, offending)

\* an Integer column holding a fractional number (invalid) and a fill-value
\* that is not a number (valid)
C3_Witness ==
    /\ Validated
    /\ cde_rules[1].DataType = "Integer"
    /\ ColumnGiven(1)
    /\ \E k, m \in Rows :
          /\ CheckedColumn(1)[k] = "2.5" /\ CellFlagged(1, k)
          /\ CheckedColumn(1)[m] = "Unknown" /\ ~CellFlagged(1, m)
    /\ Cardinality(FindingsOf(1)) = 1

\* C4: a cell of an Enum field is valid iff it is one of the declared
\* values or one of the fill-values; the reported invalid set is the set of
\* distinct non-member cells and its size is the reported count.
C4_EnumCellsAndFinding ==
    Validated =>
        \A i \in RuleIndexes :
            (cde_rules[i].DataType = "Enum" /\ ColumnGiven(i)) =>
                LET members == SetOf(cde_rules[i].ValidValues) \cup SetOf(cde_rules[i].FillNull)
                    offending == {CheckedColumn(i)[k] : k \in Rows} \ members
                IN  /\ \A k \in Rows : CellFlagged(i, k) <=> CheckedColumn(i)[k] \notin members
                    /\ OneFindingListing(i, offending)

\* an Enum column with a declared value, and a value that is not a member
C4_Witness ==
    /\ Validated
    /\ cde_rules[1].DataType = "Enum"
    /\ ColumnGiven(1)
    /\ \E k, m \in Rows :
          /\ CheckedColumn(1)[k] = "Bob" /\ ~CellFlagged(1, k)
          /\ CheckedColumn(1)[m] = "30" /\ CellFlagged(1, m)
    /\ \A j \in FindingsOf(1) : findings.invalid_entries[j][3] = 1

\* C5 as stated: a sentinel cell of a Regex field is valid iff 'NA' is a
\* declared fill-value, while a sentinel cell of an Integer, Float or Enum
\* field is valid whether or not 'NA' is declared.
C5_SentinelAsymmetryAsStated ==
    Validated =>
        \A i \in RuleIndexes : \A k \in Rows :
            (ColumnGiven(i) /\ CheckedColumn(i)[k] = "NA") =>
                /\ cde_rules[i].DataType = "Regex" =>
                      (~CellFlagged(i, k) <=> "NA" \in SetOf(cde_rules[i].FillNull))
                /\ cde_rules[i].DataType \in {"Integer", "Float", "Enum"} =>
                      ~CellFlagged(i, k)

\* C5 (amended): a sentinel cell of a Regex field is valid iff 'NA' is a
\* declared fill-value, even when the pattern matches 'NA'; a sentinel cell
\* of an Enum field is valid iff 'NA' is a declared value or fill-value; a
\* sentinel cell of an Integer or Float field is always valid.
C5_SentinelAcceptance ==
    Validated =>
        \A i \in RuleIndexes : \A k \in Rows :
            (ColumnGiven(i) /\ CheckedColumn(i)[k] = "NA") =>
                /\ cde_rules[i].DataType = "Regex" =>
                      (~CellFlagged(i, k) <=> "NA" \in SetOf(cde_rules[i].FillNull))
                /\ cde_rules[i].DataType = "Enum" =>
                      (~CellFlagged(i, k) <=>
                          "NA" \in SetOf(cde_rules[i].ValidValues)
                                   \cup SetOf(cde_rules[i].FillNull))
                /\ cde_rules[i].DataType \in {"Integer", "Float"} => ~CellFlagged(i, k)

\* a Regex field whose pattern matches 'NA' but whose fill-values do not
\* hold it: the sentinel cell is reported invalid
C5_Witness ==
    /\ Validated
    /\ cde_rules[1].DataType = "Regex"
    /\ cde_rules[1].Validation = "[A-Z]+"
    /\ "NA" \notin SetOf(cde_rules[1].FillNull)
    /\ ColumnGiven(1)
    /\ \E k \in Rows : CheckedColumn(1)[k] = "NA" /\ CellFlagged(1, k)

\* the pattern of the model that Python's re rejects
MalformedPattern == "[0-9"

\* how often the field is counted as a required-invalid / optional-invalid field
TimesCounted(field, columns) == Cardinality({j \in 1..Len(columns) : columns[j] = field})

-----------------------------------------------------------------------------
(* Properties of the step 4 / step 5 flow (checked under Spec) *)

ValidationDone == pc \in {"validated", "validated_again"}

\* C7: the sanitized table is offered for download iff the ErrorCount of
\* the validation is 0; warnings never withhold it, any error does.
C7_ExportIffNoErrors ==
    ValidationDone => (sanitized_offered <=> errors_counter = 0)

\* a run with warnings and no error, whose sanitized table is offered
C7_Witness ==
    /\ pc = "validated"
    /\ warnings_counter = 2
    /\ errors_counter = 0
    /\ sanitized_offered

\* C8: validating the same table, fill choices and rules a second time
\* gives the same report (entries and exported text), the same returned
\* table and the same ErrorCount and WarningCount.
C8_SecondRunIsIdentical ==
    pc = "validated_again" => previous_run = <<RunOutputs>>

\* the cells of the model that compute_missing_mask must flag
MissingCellTexts == {PD_NA, "", " "}

FillApplied == pc \in {"step5", "validated", "validated_again"}

\* the column is a rule field for which the session holds a fill choice
HasFillChoice(column) ==
    /\ \E i \in RuleIndexes : cde_rules[i].Field = column
    /\ \/ Truthy(column_choices[column])
       \/ Truthy(enum_choice[column])

\* C10: the fill changes only absent or blank cells: a cell that held a
\* non-blank value, null-like tokens such as 'none' included, keeps it, the
\* set and order of columns is kept, and a column without a choice is
\* unchanged.
C10_FillTouchesOnlyMissingCells ==
    FillApplied =>
        /\ prepared_df.cols = raw_df.cols
        /\ prepared_df.nrows = raw_df.nrows
        /\ \A c \in DOMAIN raw_df.cells :
              /\ \A k \in 1..raw_df.nrows :
                    raw_df.cells[c][k] \notin MissingCellTexts
                        => prepared_df.cells[c][k] = raw_df.cells[c][k]
              /\ ~HasFillChoice(c) => prepared_df.cells[c] = raw_df.cells[c]

\* a filled column that held a blank cell and the token 'none': the blank
\* cell was replaced, 'none' was kept, and the extra column kept its blank
C10_Witness ==
    /\ pc = "step5"
    /\ FIELD_1 \in DOMAIN raw_df.cells
    /\ \E k, m \in 1..raw_df.nrows :
          /\ raw_df.cells[FIELD_1][k] = " "
          /\ prepared_df.cells[FIELD_1][k] = "Unknown"
          /\ raw_df.cells[FIELD_1][m] = "none"
          /\ prepared_df.cells[FIELD_1][m] = "none"
    /\ prepared_df.cells[EXTRA_COLUMN] = raw_df.cells[EXTRA_COLUMN]
    /\ \E k \in 1..raw_df.nrows : raw_df.cells[EXTRA_COLUMN][k] = ""

-----------------------------------------------------------------------------
(* Properties of the fill of one column (checked under SpecFill) *)

\* the column with every absent or blank cell replaced by value
FilledWith(series, value) ==
    [k \in 1..Len(series) |-> IF series[k] \in MissingCellTexts THEN value ELSE series[k]]

NonBlankOverride(value) == value # None /\ \E k \in 1..Len(value) : Char(value, k) # " "

GenericLabel(value) == "Fill out with \"" \o value \o "\""

\* the literal values whose generic label the model offers as a choice
LabelledValues == {"Unknown", "NA"}

\* C9: fill resolution has a fixed precedence: a non-blank override is
\* used if present; otherwise the value X of the selected option
\* 'Fill out with "X"' (or a selected fill-value itself); otherwise, with no
\* override and no resolvable option, the column is returned unchanged.
C9_FillPrecedence ==
    fill_call.done =>
        LET series == fill_call.series
            choice == fill_call.user_choice
            override == fill_call.enum_choice_value
            IsLabel == \E x \in LabelledValues : choice = GenericLabel(x)
            IsFillValue == choice \in SetOf(fill_call.fillnull_values)
        IN  /\ NonBlankOverride(override) => fill_call.result = FilledWith(series, override)
            /\ ~NonBlankOverride(override) =>
                  /\ \A x \in LabelledValues :
                        choice = GenericLabel(x) => fill_call.result = FilledWith(series, x)
                  /\ (~IsLabel /\ IsFillValue) => fill_call.result = FilledWith(series, choice)
                  /\ (~IsLabel /\ ~IsFillValue) => fill_call.result = series

\* an override and a generic option both chosen for a column with a
\* missing cell: the override won
C9_Witness ==
    /\ fill_call.done
    /\ fill_call.enum_choice_value = "Bob"
    /\ fill_call.user_choice = GenericLabel("Unknown")
    /\ \E k \in 1..Len(fill_call.series) :
          fill_call.series[k] = PD_NA /\ fill_call.result[k] = "Bob"

-----------------------------------------------------------------------------
(* utils/find_missing_values.py called on any table with any sentinel *)

\* what the variables of the step 4 / step 5 flow hold while a function of
\* utils/ is called on its own
PipelineIdle ==
    /\ cde_rules = <<>>
    /\ raw_df = NoTable
    /\ column_choices = NoChoices
    /\ enum_choice = NoEnumChoices
    /\ prepared_df = NoTable
    /\ validated_output_df = NoTable
    /\ report_entries = <<>>
    /\ findings = NoFindings
    /\ errors_counter = 0
    /\ warnings_counter = 0
    /\ sanitized_offered = FALSE
    /\ previous_run = <<>>
    /\ fill_call = NoFillCall

\* cells of a column: truly absent, blank, null-like tokens, the text 'NA', other text
NormalizeCells == {PD_NA, "", " \t", "none", "N/A", "NA", "30", " x "}

\* the sentinel argument: the default, text that is no token, a token, blank text
Sentinels == {NULL_SENTINEL, "missing", "none", ""}

InitNormalize ==
    /\ PipelineIdle
    /\ pc = "find_missing_values"
    /\ util_call \in
          {[op |-> "normalize", step |-> 0, sentinel |-> sentinel,
            original |-> dataframe, dataframe |-> dataframe,
            mask |-> <<>>, normalized |-> NoTable, series_once |-> <<>>,
            series_twice |-> <<>>] :
              sentinel \in Sentinels,
              dataframe \in
                 {Table(<<FIELD_1, EXTRA_COLUMN>>,
                        [c \in {FIELD_1, EXTRA_COLUMN} |->
                            IF c = FIELD_1 THEN c1 ELSE ExtraColumnCells]) :
                     c1 \in [1..MaxRows -> NormalizeCells]}}

\* compute_missing_mask(dataframe[FIELD_1])
ComputeMissingMask ==
    /\ util_call.op = "normalize" /\ util_call.step = 0
    /\ util_call' = [util_call EXCEPT
          !.step = 1,
          !.mask = compute_missing_mask(util_call.dataframe.cells[FIELD_1])]
    /\ UNCHANGED <<pipeline_vars, fill_call>>

\* normalize_null_like_dataframe(dataframe, sentinel): the columns are assigned
\* on a copy, the argument keeps its cells
NormalizeNullLike ==
    /\ util_call.op = "normalize" /\ util_call.step = 1
    /\ util_call' = [util_call EXCEPT
          !.step = 2,
          !.normalized = normalize_null_like_dataframe(util_call.dataframe,
                                                       util_call.sentinel),
          !.series_once = normalize_null_like_series(util_call.dataframe.cells[FIELD_1],
                                                     util_call.sentinel)]
    /\ UNCHANGED <<pipeline_vars, fill_call>>

\* normalize_null_like_series applied to its own result
NormalizeAgain ==
    /\ util_call.op = "normalize" /\ util_call.step = 2
    /\ util_call' = [util_call EXCEPT
          !.step = 3,
          !.series_twice = normalize_null_like_series(util_call.series_once,
                                                      util_call.sentinel)]
    /\ UNCHANGED <<pipeline_vars, fill_call>>

NextNormalize == ComputeMissingMask \/ NormalizeNullLike \/ NormalizeAgain

SpecNormalize == InitNormalize /\ [][NextNormalize]_vars

-----------------------------------------------------------------------------
(* Properties of find_missing_values (checked under SpecNormalize) *)

NormalizeCall == util_call.op = "normalize"

BlankTexts == {"", " \t"}

NullLikeTokens == {"none", "None", "nan", "NaN", "NAN", "N/A", "n/a"}

\* C11: compute_missing_mask marks a cell true iff the cell is truly absent
\* (pd.NA) or an empty / whitespace-only string; null-like tokens and the
\* text 'NA' are marked false.
C11_MissingMaskIsAbsentOrBlank ==
    (NormalizeCall /\ util_call.step >= 1) =>
        LET column == util_call.dataframe.cells[FIELD_1]
        IN  /\ Len(util_call.mask) = Len(column)
            /\ \A k \in 1..Len(column) :
                  /\ util_call.mask[k] <=> (column[k] = PD_NA \/ column[k] \in BlankTexts)
                  /\ column[k] \in NullLikeTokens \cup {"NA"} => ~util_call.mask[k]

C11_Witness ==
    /\ NormalizeCall /\ util_call.step >= 1
    /\ util_call.dataframe.cells[FIELD_1][1] = " \t"
    /\ util_call.dataframe.cells[FIELD_1][2] = "N/A"
    /\ util_call.mask[1] /\ ~util_call.mask[2]

\* the cells normalize_null_like replaces: missing or a null-like token
Replaced(cell) == cell = PD_NA \/ cell \in BlankTexts \/ cell \in NullLikeTokens

\* exactly the missing cells and the token cells become the sentinel, every
\* other cell is kept, in the series and in every column of the table, and
\* the argument is not modified
ReplacesExactlyNullLike ==
    /\ util_call.dataframe = util_call.original
    /\ util_call.normalized.cols = util_call.original.cols
    /\ \A c \in DOMAIN util_call.original.cells : \A k \in 1..MaxRows :
          util_call.normalized.cells[c][k] =
              IF Replaced(util_call.original.cells[c][k])
              THEN util_call.sentinel ELSE util_call.original.cells[c][k]
    /\ util_call.series_once = util_call.normalized.cells[FIELD_1]

NoCellMissingAfter ==
    \A c \in DOMAIN util_call.normalized.cells : \A k \in 1..MaxRows :
        ~compute_missing_mask(util_call.normalized.cells[c])[k]

C13_NormalizeIsIdempotent ==
    (NormalizeCall /\ util_call.step = 3) =>
        util_call.series_twice = util_call.series_once

C13_Witness ==
    /\ NormalizeCall /\ util_call.step = 3
    /\ util_call.sentinel = "none"
    /\ util_call.original.cells[FIELD_1][1] = ""
    /\ util_call.original.cells[FIELD_1][2] = "NA"
    /\ util_call.series_once[1] = "none" /\ util_call.series_twice[1] = "none"
    /\ util_call.series_twice[2] = "NA"

-----------------------------------------------------------------------------
(* utils/cde.py: applicability cells and the filter of the rules by selection *)

\* float("nan"): an empty cell of the CDE sheet read by pd.read_csv; like PD_NA
\* and None a reserved string that no cell text equals
NAN == "<nan>"

\* str(cell_value) for a cell of the CDE dataframe: "nan" for NaN, "<NA>" for pd.NA
PyStr(cell_value) == IF cell_value = NAN THEN "nan" ELSE cell_value

\* pd.isna(cell_value)
IsNa(cell_value) == cell_value \in {NAN, PD_NA, None}

\* json.loads(text) for a text starting with "[": an array of double-quoted
\* strings without escapes, white space allowed around the items; mode is
\* what the scanner expects at position i
RECURSIVE JsonScan(_, _, _, _, _)
JsonScan(text, i, mode, items, current) ==
    IF i > Len(text) THEN [ok |-> mode = "end", items |-> items]
    ELSE LET ch == Char(text, i)
         IN  CASE mode = "string" ->
                    IF ch = "\"" THEN JsonScan(text, i + 1, "after_item",
                                               Append(items, current), "")
                    ELSE IF ch = "\\" THEN [ok |-> FALSE, items |-> <<>>]
                    ELSE JsonScan(text, i + 1, "string", items, current \o ch)
               [] mode = "end" -> [ok |-> FALSE, items |-> <<>>]
               [] ch \in Whitespace -> JsonScan(text, i + 1, mode, items, current)
               [] mode = "start" ->
                    IF ch = "[" THEN JsonScan(text, i + 1, "first", items, current)
                    ELSE [ok |-> FALSE, items |-> <<>>]
               [] mode \in {"first", "item"} /\ ch = "\"" ->
                    JsonScan(text, i + 1, "string", items, "")
               [] mode = "first" /\ ch = "]" -> JsonScan(text, i + 1, "end", items, current)
               [] mode = "after_item" /\ ch = "," ->
                    JsonScan(text, i + 1, "item", items, current)
               [] mode = "after_item" /\ ch = "]" ->
                    JsonScan(text, i + 1, "end", items, current)
               [] OTHER -> [ok |-> FALSE, items |-> <<>>]

json_loads(text) == JsonScan(text, 1, "start", <<>>, "")

\* parse_json_list_cell
parse_json_list_cell(cell_value) ==
    IF cell_value = None THEN <<>>
    ELSE LET normalized == Strip(PyStr(cell_value))
         IN  IF normalized = "" \/ Lower(normalized) \in {"nan", "none"} THEN <<>>
             ELSE IF StartsWith(normalized, "[")
                  THEN LET parsed == json_loads(normalized)
                       IN  IF ~parsed.ok THEN <<normalized>>
                           ELSE SelectSeq(parsed.items, LAMBDA item : Strip(item) # "")
                  ELSE <<normalized>>

_axis_allows_unset_needs_empty_list(cell_value, selected_value) ==
    IF Len(parse_json_list_cell(cell_value)) = 0 THEN TRUE
    ELSE IF selected_value = None \/ Strip(selected_value) = "" THEN FALSE
    ELSE selected_value \in SetOf(parse_json_list_cell(cell_value))

_axis_allows_any_selection(cell_value, selected_value) ==
    IF selected_value = None THEN TRUE
    ELSE IF Len(parse_json_list_cell(cell_value)) = 0 THEN TRUE
    ELSE selected_value \in SetOf(parse_json_list_cell(cell_value))

\* filter_cde_rules_for_selection._axis_allows
_axis_allows(cell_value, selected_value) ==
    IF selected_value = None \/ Strip(selected_value) = "" THEN TRUE
    ELSE IF Len(parse_json_list_cell(cell_value)) = 0 THEN TRUE
    ELSE selected_value \in SetOf(parse_json_list_cell(cell_value))

\* a CDE dataframe is [columns: the Specific* columns it has, rows: the rules
\* in order]; each axis filter is applied to what the one before kept
filter_cde_rules_for_selection(cde_dataframe, selected_species, selected_tissue_cell, selected_assay_type) ==
    IF Len(cde_dataframe.rows) = 0 THEN cde_dataframe
    ELSE LET by_assay ==
                 IF "SpecificAssays" \in cde_dataframe.columns
                 THEN SelectSeq(cde_dataframe.rows,
                         LAMBDA r : _axis_allows(r.SpecificAssays, selected_assay_type))
                 ELSE cde_dataframe.rows
             by_tissue ==
                 IF "SpecificTissueCell" \in cde_dataframe.columns
                 THEN SelectSeq(by_assay,
                         LAMBDA r : _axis_allows(r.SpecificTissueCell, selected_tissue_cell))
                 ELSE by_assay
             by_species ==
                 IF "SpecificSpecies" \in cde_dataframe.columns
                 THEN SelectSeq(by_tissue,
                         LAMBDA r : _axis_allows(r.SpecificSpecies, selected_species))
                 ELSE by_tissue
         IN  [cde_dataframe EXCEPT !.rows = by_species]

get_table_cde(cde_dataframe, table_name, selected_species, selected_tissue_cell, selected_assay_type) ==
    filter_cde_rules_for_selection(
        [cde_dataframe EXCEPT !.rows = SelectSeq(cde_dataframe.rows,
                                                 LAMBDA r : r.Table = table_name)],
        selected_species, selected_tissue_cell, selected_assay_type)

-----------------------------------------------------------------------------
(* utils/cde.py: read_CDE = load_cde_data, clean_cde_dataframe, validate_cde_completeness *)

SPECIFIC_COLUMNS == {"SpecificAssays", "SpecificTissueCell", "SpecificSpecies"}

\* read_CDE: column_list
column_list ==
    {"Table", "Field", "DisplayName", "Description", "DataType", "Required",
     "Validation", "FillNull"} \cup SPECIFIC_COLUMNS

\* validate_cde_completeness: required_columns, in the order of the list
required_columns ==
    <<"Table", "Field", "DisplayName", "Description", "DataType", "Required", "FillNull">>

\* problematic_rows.head(10)
HEAD_ROWS == 10

NoCde == [columns |-> {}, rows |-> <<>>]

\* load_cde_data: one source is read, the local file when `local` is set and the
\* Google sheet otherwise; a failed read reports the error and stops the run
load_cde_data(local, local_readable, remote_readable, sheet) ==
    IF local
    THEN IF local_readable THEN [stopped |-> FALSE, source |-> "local", cde |-> sheet]
         ELSE [stopped |-> TRUE, source |-> "none", cde |-> NoCde]
    ELSE IF remote_readable THEN [stopped |-> FALSE, source |-> "remote", cde |-> sheet]
         ELSE [stopped |-> TRUE, source |-> "none", cde |-> NoCde]

\* DataFrame.drop_duplicates(): the first of equal rows is kept
RECURSIVE drop_duplicates(_)
drop_duplicates(rows) ==
    IF Len(rows) = 0 THEN <<>>
    ELSE LET front == drop_duplicates(SubSeq(rows, 1, Len(rows) - 1))
         IN  IF InList(rows[Len(rows)], front) THEN front
             ELSE Append(front, rows[Len(rows)])

\* clean_cde_dataframe with include_asap_ids = include_aliases = False
clean_cde_dataframe(cde_dataframe) ==
    LET kept == SelectSeq(cde_dataframe.rows,
                          LAMBDA r : r.Required # "Assigned" /\ r.Required # "Alias")
        filled == [i \in 1..Len(kept) |->
                     [c \in column_list |->
                         IF c \in cde_dataframe.columns THEN kept[i][c] ELSE PD_NA]]
    IN  [columns |-> column_list,
         rows |-> drop_duplicates(SelectSeq(filled, LAMBDA r : ~IsNa(r.Table)))]

\* null_mask.any(axis=1) for one row
HasNullRequired(row) == \E i \in 1..Len(required_columns) : IsNa(row[required_columns[i]])

\* f"{table_value}.{field_value}" after fillna("UNKNOWN")
FieldLabel(row) ==
    (IF IsNa(row.Table) THEN "UNKNOWN" ELSE row.Table) \o "."
        \o (IF IsNa(row.Field) THEN "UNKNOWN" ELSE row.Field)

validate_cde_completeness_counts_all(cde_dataframe) ==
    LET problematic_rows == SelectSeq(cde_dataframe.rows, HasNullRequired)
        shown == SubSeq(problematic_rows, 1,
                        IF Len(problematic_rows) < HEAD_ROWS THEN Len(problematic_rows)
                        ELSE HEAD_ROWS)
        field_labels == [i \in 1..Len(shown) |-> FieldLabel(shown[i])]
        extra_count == Len(problematic_rows)
        details == IF extra_count > 0
                   THEN JoinComma(field_labels) \o ", and " \o ToString(extra_count) \o " more"
                   ELSE JoinComma(field_labels)
    IN  IF \E i \in 1..Len(required_columns) : required_columns[i] \notin cde_dataframe.columns
        THEN [stopped |-> TRUE, field_labels |-> <<>>, details |-> "", cde |-> NoCde]
        ELSE IF Len(problematic_rows) > 0
        THEN [stopped |-> TRUE, field_labels |-> field_labels, details |-> details,
              cde |-> NoCde]
        ELSE [stopped |-> FALSE, field_labels |-> <<>>, details |-> "", cde |-> cde_dataframe]

\* validate_cde_completeness: st.error and st.stop, or the dataframe returned
validate_cde_completeness(cde_dataframe) ==
    LET problematic_rows == SelectSeq(cde_dataframe.rows, HasNullRequired)
        shown == SubSeq(problematic_rows, 1,
                        IF Len(problematic_rows) < HEAD_ROWS THEN Len(problematic_rows)
                        ELSE HEAD_ROWS)
        field_labels == [i \in 1..Len(shown) |-> FieldLabel(shown[i])]
        extra_count == Len(problematic_rows) - Len(field_labels)
        details == IF extra_count > 0
                   THEN JoinComma(field_labels) \o ", and " \o ToString(extra_count) \o " more"
                   ELSE JoinComma(field_labels)
    IN  IF \E i \in 1..Len(required_columns) : required_columns[i] \notin cde_dataframe.columns
        THEN [stopped |-> TRUE, field_labels |-> <<>>, details |-> "", cde |-> NoCde]
        ELSE IF Len(problematic_rows) > 0
        THEN [stopped |-> TRUE, field_labels |-> field_labels, details |-> details,
              cde |-> NoCde]
        ELSE [stopped |-> FALSE, field_labels |-> <<>>, details |-> "", cde |-> cde_dataframe]

-----------------------------------------------------------------------------
(* utils/cde.py called on any CDE sheet and any selection *)

\* rows of offending rules appended to a sheet
MaxMoreRows == 11

CdeRow(table, field, description, datatype, required, fillnull, assays, tissue, species) ==
    [Table |-> table, Field |-> field, DisplayName |-> field, Description |-> description,
     DataType |-> datatype, Required |-> required, Validation |-> NAN, FillNull |-> fillnull,
     SpecificAssays |-> assays, SpecificTissueCell |-> tissue, SpecificSpecies |-> species]

\* applicability cells: absent (NaN, pd.NA, None), blank, list literals, bare
\* text, and texts starting with "[" that are no list literal
BlankCells == {None, NAN, PD_NA, "", "  "}

MalformedCells == {"[\"Human\"", "[Human]"}

ListCells == {"[\"Human\"]", " [\"Human\", \"Mouse\"] ", "[\"Mouse\", \"\"]", "[]", "Human"}

ApplicabilityCells == BlankCells \cup MalformedCells \cup ListCells

SelectedSpecies == {None, "", " ", "Human", "Mouse"}

SelectedTissueCells == {None, "Brain"}

SelectedAssayTypes == {None, "bulk_rna_seq"}

\* the rules a selection is applied to: the first with any applicability
\* cells, the second for mouse tissue, the third universal and of another table
FilterDataframes ==
    {[columns |-> columns,
      rows |-> <<CdeRow(TABLE_NAME, "f1", "d", "String", "Required", "['NA']",
                        assays, tissue, species),
                 CdeRow(TABLE_NAME, "f2", "d", "String", "Optional", "['NA']",
                        NAN, "[\"Brain\", \"iPSC\"]", "[\"Mouse\"]"),
                 CdeRow("SAMPLE", "f3", "d", "String", "Required", "['NA']",
                        NAN, NAN, NAN)>>] :
        columns \in {column_list, column_list \ SPECIFIC_COLUMNS},
        assays \in {NAN, "[\"bulk_rna_seq\"]"},
        tissue \in {NAN, "[\"Brain\"]", "[\"iPSC\"]"},
        species \in ApplicabilityCells \ {None}}
    \cup {[columns |-> column_list, rows |-> <<>>]}

FilterCalls ==
    {[op |-> "filter", step |-> 0, cde_dataframe |-> df, selected_species |-> sp,
      selected_tissue_cell |-> ts, selected_assay_type |-> as,
      kept |-> NoCde, table_kept |-> NoCde, unset |-> {}, relaxed_kept |-> NoCde] :
        df \in FilterDataframes, sp \in SelectedSpecies, ts \in SelectedTissueCells,
        as \in SelectedAssayTypes}

ParseCalls ==
    {[op |-> "parse", step |-> 0, cell_value |-> cell, selected_value |-> sel,
      raised |-> FALSE, parsed |-> <<>>, allows |-> FALSE] :
        cell \in ApplicabilityCells, sel \in {"Human", "Mouse"}}

\* the first rule of a sheet: complete, or with an absent cell, or dropped by the cleaning
FirstRows ==
    {CdeRow(TABLE_NAME, "f1", "d", "String", "Required", "['NA']", NAN, NAN, NAN),
     CdeRow(TABLE_NAME, "f1", NAN, "String", "Required", "['NA']", NAN, NAN, NAN),
     CdeRow(TABLE_NAME, NAN, "d", "String", "Optional", "['NA']", NAN, NAN, NAN),
     CdeRow(TABLE_NAME, "f1", "d", "String", "Required", NAN, NAN, NAN, NAN),
     CdeRow(NAN, "f1", NAN, "String", "Required", "['NA']", NAN, NAN, NAN),
     CdeRow(TABLE_NAME, "f1", "d", NAN, "Assigned", "['NA']", NAN, NAN, NAN)}

\* an offending rule: its DataType cell is empty
MoreRow(i) ==
    CdeRow(TABLE_NAME, "g" \o ToString(i), "d", NAN, "Required", "['NA']", NAN, NAN, NAN)

\* sheets: a first rule, the same rule once more or another complete rule,
\* then offending rules; sheets of older versions lack columns
RawSheets ==
    {[columns |-> columns,
      rows |-> <<first, IF repeated THEN first
                        ELSE CdeRow(TABLE_NAME, "f2", "d", "Integer", "Optional", "['NA']",
                                    NAN, NAN, NAN)>>
                \o [i \in 1..more |-> MoreRow(i)]] :
        columns \in {column_list, column_list \ {"DisplayName"}},
        first \in FirstRows, repeated \in BOOLEAN, more \in 0..MaxMoreRows}

ReadCalls ==
    {[op |-> "read_CDE", step |-> 0, local |-> local, local_readable |-> lr,
      remote_readable |-> rr, sheet |-> sheet, loaded |-> NoCde, source |-> "none",
      cleaned |-> NoCde, stopped |-> FALSE, field_labels |-> <<>>, details |-> "",
      cde_dataframe |-> NoCde] :
        local \in BOOLEAN, lr \in BOOLEAN, rr \in BOOLEAN,
        sheet \in RawSheets}

InitCde ==
    /\ PipelineIdle
    /\ pc = "cde"
    /\ util_call \in FilterCalls \cup ParseCalls \cup ReadCalls

\* parse_json_list_cell(cell_value) and _axis_allows(cell_value, selected_value):
\* json.loads is inside try/except Exception, nothing else of it can raise
ParseApplicabilityCell ==
    /\ util_call.op = "parse" /\ util_call.step = 0
    /\ util_call' = [util_call EXCEPT
          !.step = 1,
          !.raised = FALSE,
          !.parsed = parse_json_list_cell(util_call.cell_value),
          !.allows = _axis_allows(util_call.cell_value, util_call.selected_value)]
    /\ UNCHANGED <<pipeline_vars, fill_call>>

\* filter_cde_rules_for_selection on the rules of all tables, get_table_cde on
\* the rules of one table
FilterRules ==
    /\ util_call.op = "filter" /\ util_call.step = 0
    /\ util_call' = [util_call EXCEPT
          !.step = 1,
          !.kept = filter_cde_rules_for_selection(
                      util_call.cde_dataframe, util_call.selected_species,
                      util_call.selected_tissue_cell, util_call.selected_assay_type),
          !.table_kept = get_table_cde(
                      util_call.cde_dataframe, TABLE_NAME, util_call.selected_species,
                      util_call.selected_tissue_cell, util_call.selected_assay_type)]
    /\ UNCHANGED <<pipeline_vars, fill_call>>

\* filter_cde_rules_for_selection with some of the axes not selected
FilterRelaxed ==
    /\ util_call.op = "filter" /\ util_call.step = 1
    /\ \E unset \in SUBSET SPECIFIC_COLUMNS :
          util_call' = [util_call EXCEPT
             !.step = 2,
             !.unset = unset,
             !.relaxed_kept = filter_cde_rules_for_selection(
                util_call.cde_dataframe,
                IF "SpecificSpecies" \in unset THEN None ELSE util_call.selected_species,
                IF "SpecificTissueCell" \in unset THEN None
                ELSE util_call.selected_tissue_cell,
                IF "SpecificAssays" \in unset THEN None ELSE util_call.selected_assay_type)]
    /\ UNCHANGED <<pipeline_vars, fill_call>>

\* read_CDE: load_cde_data
LoadCdeData ==
    /\ util_call.op = "read_CDE" /\ util_call.step = 0
    /\ LET load == load_cde_data(util_call.local, util_call.local_readable,
                                 util_call.remote_readable, util_call.sheet)
       IN  util_call' = [util_call EXCEPT
              !.step = IF load.stopped THEN 4 ELSE 1,
              !.stopped = load.stopped,
              !.source = load.source,
              !.loaded = load.cde]
    /\ UNCHANGED <<pipeline_vars, fill_call>>

\* read_CDE: clean_cde_dataframe
CleanCdeDataframe ==
    /\ util_call.op = "read_CDE" /\ util_call.step = 1
    /\ util_call' = [util_call EXCEPT
          !.step = 2,
          !.cleaned = clean_cde_dataframe(util_call.loaded)]
    /\ UNCHANGED <<pipeline_vars, fill_call>>

\* read_CDE: validate_cde_completeness, then the dataframe is returned
ValidateCdeCompleteness ==
    /\ util_call.op = "read_CDE" /\ util_call.step = 2
    /\ LET audit == validate_cde_completeness(util_call.cleaned)
       IN  util_call' = [util_call EXCEPT
              !.step = 3,
              !.stopped = audit.stopped,
              !.field_labels = audit.field_labels,
              !.details = audit.details,
              !.cde_dataframe = audit.cde]
    /\ UNCHANGED <<pipeline_vars, fill_call>>

NextCde ==
    \/ ParseApplicabilityCell
    \/ FilterRules
    \/ FilterRelaxed
    \/ LoadCdeData
    \/ CleanCdeDataframe
    \/ ValidateCdeCompleteness

SpecCde == InitCde /\ [][NextCde]_vars

-----------------------------------------------------------------------------
(* Properties of utils/cde.py (checked under SpecCde) *)

Filtered == util_call.op = "filter" /\ util_call.step >= 1

\* no value is selected for an axis: None or blank text
Unselected(selected_value) == selected_value \in {None, "", " "}

\* the selection and the applicability cell of a rule on each axis
SelectionOn(axis) ==
    CASE axis = "SpecificSpecies" -> util_call.selected_species
      [] axis = "SpecificTissueCell" -> util_call.selected_tissue_cell
      [] OTHER -> util_call.selected_assay_type

\* an axis allows a rule: nothing selected, or no applicability list (no such
\* column, or an empty list), or the selected value in the list
AxisAllows(rule, axis) ==
    \/ Unselected(SelectionOn(axis))
    \/ axis \notin util_call.cde_dataframe.columns
    \/ parse_json_list_cell(rule[axis]) = <<>>
    \/ \E k \in 1..Len(parse_json_list_cell(rule[axis])) :
          parse_json_list_cell(rule[axis])[k] = SelectionOn(axis)

PositionIn(rows, rule) == CHOOSE i \in 1..Len(rows) : rows[i] = rule

\* every axis allows the rule
AllAxesAllow(rule) == \A axis \in SPECIFIC_COLUMNS : AxisAllows(rule, axis)

\* kept holds rows of `rows` only, in their order in `rows`
InOrderOf(rows, kept) ==
    /\ \A j \in 1..Len(kept) : \E i \in 1..Len(rows) : rows[i] = kept[j]
    /\ \A a, b \in 1..Len(kept) : a < b => PositionIn(rows, kept[a]) < PositionIn(rows, kept[b])

\* C14: filter_cde_rules_for_selection keeps a rule iff each of the three axes
\* allows it (nothing selected for the axis, or the rule's applicability list
\* for the axis empty, or the selected value in that list), in the original
\* order; get_table_cde does so for the rules of its table.
C14_FilterKeepsAllowedRulesInOrder ==
    Filtered =>
        LET rows == util_call.cde_dataframe.rows
        IN  /\ InOrderOf(rows, util_call.kept.rows)
            /\ InOrderOf(rows, util_call.table_kept.rows)
            /\ \A i \in 1..Len(rows) :
                  /\ InList(rows[i], util_call.kept.rows) <=> AllAxesAllow(rows[i])
                  /\ InList(rows[i], util_call.table_kept.rows)
                        <=> (rows[i].Table = TABLE_NAME /\ AllAxesAllow(rows[i]))

C14_Witness ==
    /\ Filtered
    /\ util_call.selected_species = "Human"
    /\ util_call.selected_tissue_cell = None
    /\ util_call.selected_assay_type = "bulk_rna_seq"
    /\ SPECIFIC_COLUMNS \subseteq util_call.cde_dataframe.columns
    /\ Len(util_call.cde_dataframe.rows) = 3
    /\ util_call.cde_dataframe.rows[1].SpecificSpecies = " [\"Human\", \"Mouse\"] "
    /\ [i \in 1..Len(util_call.kept.rows) |-> util_call.kept.rows[i].Field] = <<"f1", "f3">>

\* C15: the rules kept with a selection are among the rules kept with any of
\* its axes unset; setting an axis only removes rules.
C15_FilterIsMonotonic ==
    (util_call.op = "filter" /\ util_call.step = 2) =>
        SetOf(util_call.kept.rows) \subseteq SetOf(util_call.relaxed_kept.rows)

C15_Witness ==
    /\ util_call.op = "filter" /\ util_call.step = 2
    /\ util_call.unset = {"SpecificSpecies"}
    /\ util_call.selected_species = "Human"
    /\ util_call.selected_tissue_cell = "Brain"
    /\ Len(util_call.kept.rows) = 1
    /\ Len(util_call.relaxed_kept.rows) = 3

\* C16: parsing an applicability cell never raises, and a blank or malformed
\* cell parses to the empty list, so the axis allows the rule for any selection.
C16_BlankOrMalformedCellIsUniversal ==
    (util_call.op = "parse" /\ util_call.step = 1) =>
        /\ ~util_call.raised
        /\ util_call.cell_value \in BlankCells \cup MalformedCells =>
              util_call.parsed = <<>> /\ util_call.allows

ReadCall == util_call.op = "read_CDE"

Audited == ReadCall /\ util_call.step = 3

\* the rows of the cleaned sheet with an absent value in one of the seven columns
OffendingRows ==
    {i \in 1..Len(util_call.cleaned.rows) :
        \E c \in {"Table", "Field", "DisplayName", "Description", "DataType", "Required",
                  "FillNull"} :
            util_call.cleaned.rows[i][c] \in {NAN, PD_NA}}

NamedPairs == IF Cardinality(OffendingRows) < 10 THEN Cardinality(OffendingRows) ELSE 10

\* the first n offending rows of the cleaned sheet
FirstOffending(n) ==
    {i \in OffendingRows : Cardinality({j \in OffendingRows : j <= i}) <= n}

\* C17: on the cleaned sheet (no row without a table name, no row twice) the
\* audit stops the run iff some row has an absent value in one of the seven
\* columns; the error names the first offending Table.Field pairs, at most 10,
\* followed by 'and N more' for the N > 0 remaining offending rows, and no
\* schema is returned.
C17_AuditStopsOnAbsentValues ==
    Audited =>
        /\ \A i \in 1..Len(util_call.cleaned.rows) :
              /\ util_call.cleaned.rows[i].Table \notin {NAN, PD_NA}
              /\ \A j \in 1..Len(util_call.cleaned.rows) :
                    util_call.cleaned.rows[i] = util_call.cleaned.rows[j] => i = j
        /\ util_call.stopped <=> OffendingRows # {}
        /\ util_call.stopped =>
              /\ util_call.cde_dataframe = NoCde
              /\ Len(util_call.field_labels) = NamedPairs
              /\ SetOf(util_call.field_labels) =
                    {util_call.cleaned.rows[i].Table \o "."
                        \o (IF util_call.cleaned.rows[i].Field = NAN THEN "UNKNOWN"
                            ELSE util_call.cleaned.rows[i].Field) :
                     i \in FirstOffending(10)}
              /\ LET remaining == Cardinality(OffendingRows) - NamedPairs
                     suffix == ", and " \o ToString(remaining) \o " more"
                 IN  IF remaining > 0
                     THEN EndsWith(util_call.details, suffix)
                     ELSE ~EndsWith(util_call.details, " more")
        /\ ~util_call.stopped => util_call.cde_dataframe = util_call.cleaned

C17_Witness ==
    /\ Audited
    /\ util_call.stopped
    /\ Cardinality(OffendingRows) = 12
    /\ Len(util_call.sheet.rows) = 13
    /\ Len(util_call.field_labels) = 10
    /\ EndsWith(util_call.details, ", and 2 more")

\* C18: when the remote fetch fails and the local copy is readable the schema
\* is loaded from the local copy; the run stops as unreachable only when both
\* sources fail.
C18_RemoteFailureFallsBackToLocal ==
    (ReadCall /\ util_call.step >= 1) =>
        /\ (~util_call.remote_readable /\ util_call.local_readable) =>
              (util_call.step # 4 /\ util_call.source = "local")
        /\ (util_call.step = 4) => (~util_call.remote_readable /\ ~util_call.local_readable)

-----------------------------------------------------------------------------
(* utils/delimiter_handler.py *)

LINES_TO_EVALUATE == 50

SUPPORTED_DELIMITERS == <<",", ";", "\t", "|">>

\* str.splitlines(): line boundaries; "\r\n" is one boundary
LineBoundaries == {"\n", "\r", "\f"}

RECURSIVE splitlines(_)
splitlines(text) ==
    LET breaks == {i \in 1..Len(text) : Char(text, i) \in LineBoundaries}
    IN  IF text = "" THEN <<>>
        ELSE IF breaks = {} THEN <<text>>
        ELSE LET first == CHOOSE i \in breaks : \A j \in breaks : i <= j
                 crlf  == /\ Char(text, first) = "\r"
                          /\ first < Len(text)
                          /\ Char(text, first + 1) = "\n"
                 after == IF crlf THEN first + 2 ELSE first + 1
             IN  <<SubSeq(text, 1, first - 1)>> \o splitlines(SubSeq(text, after, Len(text)))

\* line.count(delim) for a one-character delimiter
Count(line, delim) == Cardinality({i \in 1..Len(line) : Char(line, i) = delim})

\* statistics.median(counts), doubled so that the mean of the two middle
\* values of an even-length list stays an integer
median2(counts) ==
    LET n == Len(counts)
        below(v) == Cardinality({i \in 1..n : counts[i] < v})
        upto(v)  == Cardinality({i \in 1..n : counts[i] <= v})
        kth(k)   == CHOOSE v \in {counts[i] : i \in 1..n} : below(v) < k /\ upto(v) >= k
    IN  kth((n + 1) \div 2) + kth((n \div 2) + 1)

DelimiterScore_requires_consistency(delim, header_line, candidate_lines) ==
    LET counts == [i \in 1..Len(candidate_lines) |-> Count(candidate_lines[i], delim)]
        matches == Cardinality({i \in 1..Len(counts) : 2 * counts[i] = median2(counts)})
    IN  IF Count(header_line, delim) = 0 \/ matches # Len(counts) THEN -1
        ELSE 200 * matches + median2(counts) * Len(counts)

\* detect_delimiter: delimiter_scores[delim], the body of the scoring loop.
\* The float score consistency * 100 + median_count is kept as the integer
\* score * 2 * len(counts); every delimiter is scored on the same
\* candidate_lines, so the order of the scores is the order of the integers,
\* and a disqualified delimiter (-1.0) stays negative.
DelimiterScore(delim, header_line, candidate_lines) ==
    LET counts == [i \in 1..Len(candidate_lines) |-> Count(candidate_lines[i], delim)]
        median_count2 == median2(counts)
        matches == Cardinality({i \in 1..Len(counts) : 2 * counts[i] = median_count2})
        est_cols == Count(header_line, delim) + 1
    IN  IF Count(header_line, delim) = 0 THEN -1
        ELSE IF Len(counts) = 0 THEN -1
        ELSE IF median_count2 <= 0 THEN -1
        ELSE IF est_cols <= 1 THEN -1
        ELSE 200 * matches + median_count2 * Len(counts)

\* detect_delimiter(file_content, filename, num_lines): best_delim and
\* confidence; confidence is the fraction confidence / scale.  The preview
\* dataframe is built after both are fixed and changes neither.
detect_delimiter(decoded, num_lines) ==
    LET \* [line for line in decoded.splitlines() if line.strip()]
        lines == SelectSeq(splitlines(decoded), LAMBDA line : Strip(line) # "")
        upto == IF Len(lines) < num_lines THEN Len(lines) ELSE num_lines
        stop == IF upto < 2 THEN 2 ELSE upto
        candidate_lines == SubSeq(lines, 1, IF stop < Len(lines) THEN stop ELSE Len(lines))
        scale == 2 * Len(candidate_lines)
        delimiter_scores == [i \in 1..Len(SUPPORTED_DELIMITERS) |->
                                DelimiterScore(SUPPORTED_DELIMITERS[i], lines[1], candidate_lines)]
        \* max(delimiter_scores, key=delimiter_scores.get): the first of the
        \* best keys in insertion order
        best == CHOOSE i \in 1..Len(SUPPORTED_DELIMITERS) :
                    /\ \A j \in 1..Len(SUPPORTED_DELIMITERS) : delimiter_scores[j] <= delimiter_scores[i]
                    /\ \A j \in 1..(i - 1) : delimiter_scores[j] < delimiter_scores[i]
        best_score == delimiter_scores[best]
    IN  IF Len(lines) = 0 THEN [best_delim |-> ",", confidence |-> 0, scale |-> 1]
        ELSE IF best_score < 0 THEN [best_delim |-> ",", confidence |-> 0, scale |-> scale]
        ELSE [best_delim |-> SUPPORTED_DELIMITERS[best],
              confidence |-> IF best_score > 100 * scale THEN 100 * scale ELSE best_score,
              scale |-> scale]

\* get_row_count(file_content, delimiter).  A file is described by what the
\* code asks of it: whether the bytes are empty, the number of non-empty
\* lines, and the outcome of pd.read_csv on it with the strict (default) and
\* the tolerant (engine="python", on_bad_lines="skip") settings.
get_row_count(file) ==
    IF file.content_empty THEN 0
    ELSE IF file.non_empty_lines <= 1 THEN 0
    ELSE IF file.strict.outcome = "ok" THEN (IF file.strict.rows < 0 THEN 0 ELSE file.strict.rows)
    ELSE IF file.tolerant.outcome = "ok" THEN (IF file.tolerant.rows < 0 THEN 0 ELSE file.tolerant.rows)
    ELSE -1

\* validate_and_report_structure: True when the strict parse succeeds; every
\* path under "except pd.errors.ParserError" returns False; any other
\* exception of pd.read_csv is not caught
validate_and_report_structure(file) ==
    IF file.strict.outcome = "ok" THEN "True"
    ELSE IF file.strict.outcome = "ParserError" THEN "False"
    ELSE "raises"

check_delimiter_decisions_prompts_comma(file) ==
    LET row_count == get_row_count(file)
        structure == validate_and_report_structure(file)
        outcome(invalid, raised, error_shown, prompted) ==
            [invalid |-> invalid, raised |-> raised, error_shown |-> error_shown, prompted |-> prompted]
    IN  IF file.content_empty THEN outcome(TRUE, FALSE, TRUE, FALSE)
        ELSE IF structure = "raises" THEN outcome(FALSE, TRUE, FALSE, FALSE)
        ELSE IF structure = "False" THEN outcome(TRUE, FALSE, TRUE, FALSE)
        ELSE IF row_count = 0 THEN outcome(TRUE, FALSE, TRUE, FALSE)
        ELSE outcome(FALSE, FALSE, row_count < 0, TRUE)

\* check_delimiter_decisions: the loop body for one uploaded file that has no
\* recorded delimiter decision
check_delimiter_decisions(file) ==
    LET row_count == get_row_count(file)
        structure == validate_and_report_structure(file)
        outcome(invalid, raised, error_shown, prompted) ==
            [invalid |-> invalid, raised |-> raised, error_shown |-> error_shown, prompted |-> prompted]
    IN  IF file.content_empty THEN outcome(TRUE, FALSE, TRUE, FALSE)
        ELSE IF structure = "raises" THEN outcome(FALSE, TRUE, FALSE, FALSE)
        ELSE IF structure = "False" THEN outcome(TRUE, FALSE, TRUE, FALSE)
        ELSE IF row_count = 0 THEN outcome(TRUE, FALSE, TRUE, FALSE)
        ELSE outcome(FALSE, FALSE, row_count < 0, file.delimiter # ",")

-----------------------------------------------------------------------------
(* Calls of utils/delimiter_handler.py *)

MaxDataRows == 2

\* df.to_csv(index=False) with separator sep: a cell is quoted when it holds
\* the separator, a quote or a line break, and an empty single field is
\* written as "" (cells of the modelled tables hold no quote character)
to_csv(table, sep) ==
    LET cell(c) == IF \/ Count(c, sep) > 0
                      \/ \E i \in 1..Len(c) : Char(c, i) \in {"\n", "\r"}
                   THEN "\"" \o c \o "\"" ELSE c
        RECURSIVE join(_)
        join(cells) == IF Len(cells) = 1 THEN cell(cells[1])
                       ELSE cell(cells[1]) \o sep \o join(Tail(cells))
        line(cells) == IF cells = <<"">> THEN "\"\"\n" ELSE join(cells) \o "\n"
        RECURSIVE lines(_)
        lines(rows) == IF Len(rows) = 0 THEN "" ELSE line(rows[1]) \o lines(Tail(rows))
    IN  line(table.header) \o lines(table.rows)

\* Well-formed tables: a header of one or two names and up to MaxDataRows
\* rows of as many cells, some holding candidate delimiters or line breaks
DelimiterTables ==
    LET Headers == {<<"h">>, <<"h", "k">>, <<"h,1", "k">>, <<"", "">>}
        DataCells == {"a", "p,q|r", "x;y\tz", "m\nn\no"}
    IN  UNION {{[header |-> h, rows |-> r] :
                   r \in UNION {[1..k -> [1..Len(h) -> DataCells]] : k \in 0..MaxDataRows}} : h \in Headers}

\* The files of the pre-pass: empty bytes; blank text, of which pd.read_csv
\* raises EmptyDataError; a header alone; a header and further lines.  An
\* outcome of pd.read_csv is a dataframe of so many rows or an exception.
\* The strict parse of a file has one outcome wherever it is made, and no
\* parse yields more rows than the file has lines after the header.
UploadedFiles ==
    LET StrictOutcomes ==
            {[outcome |-> "ok", rows |-> n] : n \in 0..MaxDataRows}
                \cup {[outcome |-> o, rows |-> 0] : o \in {"ParserError", "EmptyDataError"}}
        TolerantOutcomes ==
            {[outcome |-> "ok", rows |-> n] : n \in 0..MaxDataRows} \cup {[outcome |-> "error", rows |-> 0]}
    IN  {f \in [content_empty : BOOLEAN, non_empty_lines : 0..(MaxDataRows + 1), delimiter : {",", ";"},
                strict : StrictOutcomes, tolerant : TolerantOutcomes] :
            /\ f.content_empty => f.non_empty_lines = 0
            /\ f.non_empty_lines = 0 =>
                  f.strict.outcome = "EmptyDataError" /\ f.tolerant.outcome = "error" /\ f.delimiter = ","
            /\ f.non_empty_lines > 0 =>
                  /\ f.strict.rows < f.non_empty_lines
                  /\ f.tolerant.rows < f.non_empty_lines
                  /\ f.strict.outcome = "ok" => f.tolerant = [outcome |-> "ok", rows |-> f.strict.rows]}

\* The arguments of one call: a table written with one of the supported
\* delimiters, or an empty or blank text, for detect_delimiter; an uploaded
\* file for the pre-pass
DelimiterCalls ==
    {[op |-> "detect", step |-> 0, sep |-> SUPPORTED_DELIMITERS[d], table |-> t,
      content |-> to_csv(t, SUPPORTED_DELIMITERS[d]), best_delim |-> None, confidence |-> 0, scale |-> 1] :
        d \in 1..Len(SUPPORTED_DELIMITERS), t \in DelimiterTables}
    \cup
    {[op |-> "detect", step |-> 0, sep |-> ",", table |-> [header |-> <<>>, rows |-> <<>>],
      content |-> c, best_delim |-> None, confidence |-> 0, scale |-> 1] : c \in {"", " \n\n"}}
    \cup
    {[op |-> "prepass", step |-> 0, file |-> f, row_count |-> 0,
      invalid |-> FALSE, raised |-> FALSE, error_shown |-> FALSE, prompted |-> FALSE] : f \in UploadedFiles}

InitDelimiter ==
    /\ PipelineIdle
    /\ pc = "delimiter"
    /\ util_call \in DelimiterCalls

\* detect_delimiter(file_content, data_file.name)
DetectDelimiter ==
    /\ pc = "delimiter"
    /\ util_call.op = "detect"
    /\ util_call.step = 0
    /\ LET detected == detect_delimiter(util_call.content, LINES_TO_EVALUATE)
       IN  util_call' = [util_call EXCEPT !.step = 1,
                                          !.best_delim = detected.best_delim,
                                          !.confidence = detected.confidence,
                                          !.scale = detected.scale]
    /\ UNCHANGED <<pipeline_vars, fill_call>>

\* get_row_count(file_content, delimiter)
GetRowCount ==
    /\ pc = "delimiter"
    /\ util_call.op = "prepass"
    /\ util_call.step = 0
    /\ util_call' = [util_call EXCEPT !.step = 1, !.row_count = get_row_count(util_call.file)]
    /\ UNCHANGED <<pipeline_vars, fill_call>>

\* check_delimiter_decisions(data_files) on the same file
CheckDelimiterDecisions ==
    /\ pc = "delimiter"
    /\ util_call.op = "prepass"
    /\ util_call.step = 1
    /\ LET decided == check_delimiter_decisions(util_call.file)
       IN  util_call' = [util_call EXCEPT !.step = 2,
                                          !.invalid = decided.invalid,
                                          !.raised = decided.raised,
                                          !.error_shown = decided.error_shown,
                                          !.prompted = decided.prompted]
    /\ UNCHANGED <<pipeline_vars, fill_call>>

NextDelimiter ==
    \/ DetectDelimiter
    \/ GetRowCount
    \/ CheckDelimiterDecisions

SpecDelimiter == InitDelimiter /\ [][NextDelimiter]_vars

-----------------------------------------------------------------------------
(* Properties of utils/delimiter_handler.py (checked under SpecDelimiter) *)

Detected == util_call.op = "detect" /\ util_call.step = 1

OtherDelimiters == {SUPPORTED_DELIMITERS[d] : d \in 1..Len(SUPPORTED_DELIMITERS)} \ {util_call.sep}

HeaderHasNoOtherDelimiter ==
    \A i \in 1..Len(util_call.table.header) :
        \A other \in OtherDelimiters : Count(util_call.table.header[i], other) = 0

HeaderLineNotBlank == Strip(to_csv([header |-> util_call.table.header, rows |-> <<>>], util_call.sep)) # ""

NoLineBreakInCells ==
    \A r \in {util_call.table.header} \cup {util_call.table.rows[i] : i \in 1..Len(util_call.table.rows)} :
        \A j \in 1..Len(r) : \A k \in 1..Len(r[j]) : Char(r[j], k) \notin LineBoundaries

CountInDataCells(delim) ==
    LET table == util_call.table
    IN  Cardinality(UNION {{<<i, j, k>> : k \in {k \in 1..Len(table.rows[i][j]) : Char(table.rows[i][j], k) = delim}} :
                              <<i, j>> \in (1..Len(table.rows)) \X (1..Len(table.header))})

ReturnsSeparator == util_call.best_delim = util_call.sep /\ util_call.confidence > 0

\* C19 as stated: for each delimiter D of comma, semicolon, tab and pipe,
\* detect_delimiter on a well-formed table serialized with D whose header
\* holds no other candidate delimiter returns D with confidence > 0.
C19_DetectAsStated ==
    (Detected /\ HeaderHasNoOtherDelimiter) => ReturnsSeparator

\* C19 amended: the same, for a table of at least two columns whose header
\* line is not blank and whose cells hold no line break; D is returned with
\* confidence > 0 even when another candidate delimiter occurs more often
\* than D inside the data cells.
C19_DetectsSeparatorOfTable ==
    (/\ Detected
     /\ HeaderHasNoOtherDelimiter
     /\ Len(util_call.table.header) >= 2
     /\ HeaderLineNotBlank
     /\ NoLineBreakInCells) => ReturnsSeparator

C19_Witness ==
    /\ Detected
    /\ HeaderHasNoOtherDelimiter
    /\ Len(util_call.table.header) >= 2
    /\ HeaderLineNotBlank
    /\ NoLineBreakInCells
    /\ \E other \in OtherDelimiters : CountInDataCells(other) > CountInDataCells(util_call.sep)
    /\ CountInDataCells(util_call.sep) > 0
    /\ ReturnsSeparator

SampledLines ==
    LET lines == SelectSeq(splitlines(util_call.content), LAMBDA line : Strip(line) # "")
    IN  SubSeq(lines, 1, IF Len(lines) < LINES_TO_EVALUATE THEN Len(lines) ELSE LINES_TO_EVALUATE)

\* the score of a candidate as the claim states it, times 2 * Len(sampled)
StatedScore(delim, sampled) ==
    LET counts == [i \in 1..Len(sampled) |-> Count(sampled[i], delim)]
        median_count2 == median2(counts)
        equal_to_median == Cardinality({i \in 1..Len(counts) : 2 * counts[i] = median_count2})
    IN  IF \/ Count(sampled[1], delim) = 0
           \/ Count(sampled[1], delim) + 1 <= 1
           \/ median_count2 = 0
        THEN -1
        ELSE 100 * equal_to_median * 2 + median_count2 * Len(counts)

Candidates == {SUPPORTED_DELIMITERS[d] : d \in 1..Len(SUPPORTED_DELIMITERS)}

\* C27: detect_delimiter scores a candidate -1 when it is absent from the
\* header line, or the header would have at most one column, or the median
\* count per sampled line is zero, and 100 x (fraction of sampled lines whose
\* count equals the median) + median otherwise; it returns a candidate of
\* maximum score with that score, capped at 100, as confidence, and comma
\* with confidence 0 when no candidate has a non-negative score (empty input
\* included); the confidence lies in [0, 100].
C27_ScoresAndWinner ==
    Detected =>
        LET sampled == SampledLines
            score == [delim \in Candidates |-> IF Len(sampled) = 0 THEN -1 ELSE StatedScore(delim, sampled)]
        IN  /\ util_call.confidence >= 0 /\ util_call.confidence <= 100 * util_call.scale
            /\ IF \A delim \in Candidates : score[delim] < 0
               THEN util_call.best_delim = "," /\ util_call.confidence = 0
               ELSE /\ util_call.best_delim \in Candidates
                    /\ util_call.scale = 2 * Len(sampled)
                    /\ \A delim \in Candidates : score[delim] <= score[util_call.best_delim]
                    /\ util_call.confidence =
                          IF score[util_call.best_delim] > 100 * util_call.scale
                          THEN 100 * util_call.scale ELSE score[util_call.best_delim]

C27_Witness ==
    /\ Detected
    /\ util_call.confidence > 0
    /\ util_call.confidence < 100 * util_call.scale
    /\ \E delim \in Candidates \ {util_call.best_delim} :
          Count(SampledLines[1], delim) > 0 /\ StatedScore(delim, SampledLines) < 0

Counted == util_call.op = "prepass" /\ util_call.step >= 1

\* C20 as stated: get_row_count returns 0 for empty or header-only content, a
\* positive count for a normally parseable file with data rows, and -1 when
\* data-looking rows exist but neither the strict nor the tolerant parse
\* succeeds; check_delimiter_decisions marks a file invalid for count 0 and
\* does not mark it invalid for a negative count.
C20_RowCountSignDecidesValidity ==
    Counted =>
        /\ (util_call.file.content_empty \/ util_call.file.non_empty_lines <= 1) => util_call.row_count = 0
        /\ (/\ util_call.file.non_empty_lines > 1
            /\ util_call.file.strict.outcome = "ok"
            /\ util_call.file.strict.rows > 0) => util_call.row_count > 0
        /\ (/\ util_call.file.non_empty_lines > 1
            /\ util_call.file.strict.outcome # "ok"
            /\ util_call.file.tolerant.outcome # "ok") => util_call.row_count = -1
        /\ (util_call.step = 2 /\ util_call.row_count = 0) => util_call.invalid
        /\ (util_call.step = 2 /\ util_call.row_count < 0) => ~util_call.invalid

-----------------------------------------------------------------------------
(* utils/delimiter_handler.py and app.py main(): the uploaded batch across script runs *)

MaxUploads == 2

DEFAULT_DELIMITER == ","

\* pd.read_csv(io.StringIO(decoded), sep=delimiter, dtype=str) on a text of a
\* header of header_fields fields and rows of row_fields[i] fields.  The C
\* tokenizer compares each line with the width of the line before it
\* (end_line): a line with fewer fields is padded, the first data line is
\* exempt, and a later line with more fields ends the parse with
\* "Expected E fields in line L, saw S" (L counts the header as line 1).
read_csv_strict(header_fields, row_fields) ==
    LET width == IF Len(row_fields) > 0 /\ row_fields[1] > header_fields
                 THEN row_fields[1] ELSE header_fields
        bad == {i \in 2..Len(row_fields) : row_fields[i] > width}
    IN  IF bad = {} THEN [outcome |-> "ok", rows |-> Len(row_fields), line |-> 0]
        ELSE [outcome |-> "ParserError", rows |-> 0,
              line |-> 1 + (CHOOSE i \in bad : \A j \in bad : i <= j)]

\* pd.read_csv(..., engine="python", on_bad_lines="skip"): the lines with
\* too many fields are left out
read_csv_tolerant(header_fields, row_fields) ==
    LET width == IF Len(row_fields) > 0 /\ row_fields[1] > header_fields
                 THEN row_fields[1] ELSE header_fields
    IN  [outcome |-> "ok",
         rows |-> Cardinality({i \in 1..Len(row_fields) : i = 1 \/ row_fields[i] <= width})]

\* An uploaded file as the handler sees it: the bytes may be empty or hold
\* blank lines only; otherwise a header of names and rows of so many fields,
\* written with one delimiter (the one detect_delimiter returns for it)
FileOf(kind, header, row_fields, delimiter) ==
    [kind |-> kind, header |-> header, row_fields |-> row_fields, delimiter |-> delimiter,
     content_empty |-> kind = "empty",
     non_empty_lines |-> IF kind = "table" THEN 1 + Len(row_fields) ELSE 0,
     strict |-> IF kind = "table" THEN read_csv_strict(Len(header), row_fields)
                ELSE [outcome |-> "EmptyDataError", rows |-> 0, line |-> 0],
     tolerant |-> IF kind = "table" THEN read_csv_tolerant(Len(header), row_fields)
                  ELSE [outcome |-> "error", rows |-> 0]]

\* pd.read_csv of the file's bytes with separator sep: the column names.  A
\* header written with another delimiter is one field.
ParsedColumns(file, sep) ==
    LET RECURSIVE join(_)
        join(names) == IF Len(names) = 1 THEN names[1]
                       ELSE names[1] \o file.delimiter \o join(Tail(names))
    IN  IF sep = file.delimiter THEN file.header ELSE <<join(file.header)>>

DelimiterPrepass_recomputes_invalid(data_files, invalid_files, delimiter_decisions) ==
    LET outcome(i) == check_delimiter_decisions(data_files[i].file)
        raised_at == {i \in 1..Len(data_files) : outcome(i).raised}
        handled == {i \in 1..Len(data_files) : \A j \in raised_at : i < j}
        pending == {data_files[i].key : i \in {i \in handled : outcome(i).prompted /\ data_files[i].key \notin DOMAIN delimiter_decisions}}
    IN  [invalid_files |-> {data_files[i].key : i \in {i \in handled : outcome(i).invalid}},
         pending |-> pending,
         result |-> IF raised_at # {} THEN "raised" ELSE IF pending = {} THEN "True" ELSE "False"]

\* check_delimiter_decisions(data_files): one pass over the batch in upload
\* order.  An exception of validate_and_report_structure ends the pass at
\* that file; the files before it are handled, the files after it are not.
\* pending: the files a conversion prompt was shown for (missing += 1).
DelimiterPrepass(data_files, invalid_files, delimiter_decisions) ==
    LET outcome(i) == check_delimiter_decisions(data_files[i].file)
        raised_at == {i \in 1..Len(data_files) : outcome(i).raised}
        handled == {i \in 1..Len(data_files) : \A j \in raised_at : i < j}
        pending == {data_files[i].key : i \in {i \in handled : outcome(i).prompted /\ data_files[i].key \notin DOMAIN delimiter_decisions}}
    IN  [invalid_files |-> invalid_files \cup {data_files[i].key : i \in {i \in handled : outcome(i).invalid}},
         pending |-> pending,
         result |-> IF raised_at # {} THEN "raised" ELSE IF pending = {} THEN "True" ELSE "False"]

\* is_file_invalid(filename, filesize)
is_file_invalid(file_key, invalid_files) == file_key \in invalid_files

\* apply_decisions(data_files): the list of {name, bytes, delimiter}.  The
\* recorded decision holds only "action", so the delimiter is detected
\* again; a converted file is re-written by to_csv with commas.
apply_decisions(data_files, delimiter_decisions) ==
    LET action(f) == IF f.key \in DOMAIN delimiter_decisions THEN delimiter_decisions[f.key] ELSE "keep"
        processed(f) ==
            IF action(f) = "convert" /\ f.file.strict.outcome = "ok"
            THEN [key |-> f.key, file |-> [f.file EXCEPT !.delimiter = ","], delimiter |-> ","]
            ELSE [key |-> f.key, file |-> f.file, delimiter |-> f.file.delimiter]
        kept == SelectSeq(data_files, LAMBDA f : ~f.file.content_empty)
    IN  [i \in 1..Len(kept) |-> processed(kept[i])]

\* main: loader.load(processed_files) and, for each table, the dataframe
\* that is previewed, filled and validated when it is selected: the table
\* read with the default delimiter replaces the loaded one when the action
\* is 'keep' and the detected delimiter is not the default one
LoadedTables(processed_files, valid_files, delimiter_decisions) ==
    LET current(key) == CHOOSE f \in {valid_files[i] : i \in 1..Len(valid_files)} : f.key = key
        action(key) == IF key \in DOMAIN delimiter_decisions THEN delimiter_decisions[key] ELSE "keep"
        table(p) ==
            IF action(p.key) = "keep" /\ current(p.key).file.delimiter # DEFAULT_DELIMITER
            THEN [key |-> p.key, columns |-> ParsedColumns(current(p.key).file, DEFAULT_DELIMITER)]
            ELSE [key |-> p.key, columns |-> ParsedColumns(p.file, p.delimiter)]
        loadable == SelectSeq(processed_files, LAMBDA p : \E i \in 1..Len(valid_files) : valid_files[i].key = p.key)
    IN  [i \in 1..Len(loadable) |-> table(loadable[i])]

\* The batches of the file uploader: one or two files with distinct keys
\* (name and byte size), each with one of the contents the pre-pass tells apart
UploadedBatches ==
    LET Contents == {FileOf("empty", <<>>, <<>>, ","),
                     FileOf("blank", <<>>, <<>>, ","),
                     FileOf("table", <<"age", "name">>, <<>>, ","),
                     FileOf("table", <<"age", "name">>, <<2>>, ","),
                     FileOf("table", <<"age", "name">>, <<2, 2>>, ";"),
                     FileOf("table", <<"age", "name">>, <<2, 1>>, ","),
                     FileOf("table", <<"age", "name">>, <<2, 3>>, ","),
                     FileOf("table", <<"age", "name">>, <<2, 3>>, ";")}
        FileKeys == {"a.csv_18", "b.csv_18"}
    IN  {<<[key |-> k, file |-> c]>> : k \in FileKeys, c \in Contents}
        \cup {<<[key |-> "a.csv_18", file |-> c1], [key |-> "b.csv_18", file |-> c2]>> : c1 \in Contents, c2 \in Contents}

NoDecisions == [k \in {} |-> "keep"]

\* st.session_state of a new session, the script about to run on the batch
NewSession(data_files, uploads) ==
    [op |-> "session", phase |-> "run", uploads |-> uploads, data_files |-> data_files,
     invalid_files |-> {}, delimiter_decisions |-> NoDecisions, signature |-> {},
     files_ready_for_validation |-> <<>>, result |-> "none", pending |-> {}, tables |-> <<>>]

InitSession ==
    /\ PipelineIdle
    /\ pc = "session"
    /\ util_call \in {NewSession(batch, 1) : batch \in UploadedBatches}

Session(phases) == pc = "session" /\ util_call.op = "session" /\ util_call.phase \in phases

\* One run of main() from "Initialize Delimiter Handler" to the table
\* selection: the signature check, the pre-pass, the split into valid and
\* invalid files, the Apply button and the load
RunScript ==
    /\ Session({"run"})
    /\ LET s == util_call
           signature == {s.data_files[i].key : i \in 1..Len(s.data_files)}
           ready == IF s.signature # signature THEN <<>> ELSE s.files_ready_for_validation
           pass == DelimiterPrepass(s.data_files, s.invalid_files, s.delimiter_decisions)
           valid_files == SelectSeq(s.data_files, LAMBDA f : ~is_file_invalid(f.key, pass.invalid_files))
           after == [s EXCEPT !.signature = signature, !.files_ready_for_validation = ready,
                              !.invalid_files = pass.invalid_files, !.pending = pass.pending,
                              !.result = pass.result, !.tables = <<>>]
       IN  util_call' =
               IF pass.result # "True" THEN [after EXCEPT !.phase = "stopped"]
               ELSE IF Len(valid_files) = 0 THEN [after EXCEPT !.phase = "stopped"]
               ELSE IF Len(ready) = 0 THEN [after EXCEPT !.phase = "apply_offered"]
               ELSE [after EXCEPT !.phase = "loaded",
                                  !.tables = LoadedTables(ready, valid_files, s.delimiter_decisions)]
    /\ UNCHANGED <<pipeline_vars, fill_call>>

\* show_conversion_prompt: one of the two buttons of a shown prompt is
\* clicked; the decision is recorded and the script runs again
ClickDecision ==
    /\ Session({"stopped"})
    /\ \E file_key \in util_call.pending, action \in {"convert", "keep"} :
          util_call' = [util_call EXCEPT
                           !.delimiter_decisions = [k \in DOMAIN @ \cup {file_key} |->
                                                       IF k = file_key THEN action ELSE @[k]],
                           !.phase = "run"]
    /\ UNCHANGED <<pipeline_vars, fill_call>>

\* main: "Apply formatting decisions and continue"
ClickApply ==
    /\ Session({"apply_offered"})
    /\ LET valid_files == SelectSeq(util_call.data_files,
                                    LAMBDA f : ~is_file_invalid(f.key, util_call.invalid_files))
       IN  util_call' = [util_call EXCEPT
                            !.files_ready_for_validation = apply_decisions(valid_files, util_call.delimiter_decisions),
                            !.phase = "run"]
    /\ UNCHANGED <<pipeline_vars, fill_call>>

\* the file uploader delivers another batch (the same keys may come with
\* other bytes of the same size)
ChangeUploadedFiles ==
    /\ Session({"stopped", "apply_offered", "loaded"})
    /\ util_call.uploads < MaxUploads
    /\ \E batch \in UploadedBatches :
          util_call' = [util_call EXCEPT !.data_files = batch, !.phase = "run", !.uploads = @ + 1]
    /\ UNCHANGED <<pipeline_vars, fill_call>>

\* clear_decisions()
ClearDecisions ==
    /\ Session({"stopped", "apply_offered", "loaded"})
    /\ util_call.invalid_files # {} \/ DOMAIN util_call.delimiter_decisions # {}
    /\ util_call' = [util_call EXCEPT !.delimiter_decisions = NoDecisions, !.invalid_files = {},
                                      !.phase = "run"]
    /\ UNCHANGED <<pipeline_vars, fill_call>>

\* main: "Reset App" (st.session_state.clear(); the uploader is rebuilt
\* and a batch is uploaded anew)
ResetApp ==
    /\ Session({"stopped", "apply_offered", "loaded"})
    /\ util_call.uploads < MaxUploads
    /\ \E batch \in UploadedBatches : util_call' = NewSession(batch, util_call.uploads + 1)
    /\ UNCHANGED <<pipeline_vars, fill_call>>

NextSession ==
    \/ RunScript
    \/ ClickDecision
    \/ ClickApply
    \/ ChangeUploadedFiles
    \/ ClearDecisions
    \/ ResetApp

SpecSession == InitSession /\ [][NextSession]_vars

-----------------------------------------------------------------------------
(* Properties of the uploaded batch across script runs (checked under SpecSession) *)

AfterRun == Session({"stopped", "apply_offered", "loaded"}) /\ util_call.result # "none"

BatchFiles == {util_call.data_files[i] : i \in 1..Len(util_call.data_files)}

LoadedKeys == {util_call.tables[i].key : i \in 1..Len(util_call.tables)}

DivergingRows(file) == {i \in 1..Len(file.row_fields) : file.row_fields[i] # Len(file.header)}

\* C21 as stated: after a script run, every uploaded file with a data row
\* whose field count differs from the header's (more or fewer fields) has
\* failed validate_and_report_structure with the first diverging row
\* reported, is marked invalid, and is not among the loaded tables.
C21_DivergingRowMarksFileInvalid ==
    AfterRun =>
        \A f \in BatchFiles :
            (f.file.kind = "table" /\ DivergingRows(f.file) # {}) =>
                /\ validate_and_report_structure(f.file) = "False"
                /\ f.file.strict.line = 1 + (CHOOSE i \in DivergingRows(f.file) : \A j \in DivergingRows(f.file) : i <= j)
                /\ is_file_invalid(f.key, util_call.invalid_files)
                /\ f.key \notin LoadedKeys

FailsOwnChecks(file) ==
    \/ file.content_empty
    \/ validate_and_report_structure(file) # "True"
    \/ get_row_count(file) = 0

\* C22 as stated: in one pass of check_delimiter_decisions over a batch, a
\* file is added to invalid_files iff its content is empty, its structure
\* check fails or its row count is 0; the pass is not stopped, and whether a
\* file is marked invalid or prompted is what a pass over that file alone
\* would decide.
C22_DispositionDependsOnFileOnly ==
    [][Session({"run"}) =>
          /\ util_call'.result # "raised"
          /\ \A f \in BatchFiles :
                LET alone == DelimiterPrepass(<<f>>, util_call.invalid_files, util_call.delimiter_decisions)
                IN  /\ (f.key \in util_call'.invalid_files \ util_call.invalid_files) <=>
                           (FailsOwnChecks(f.file) /\ f.key \notin util_call.invalid_files)
                    /\ (f.key \in util_call'.invalid_files) <=> (f.key \in alone.invalid_files)
                    /\ (f.key \in util_call'.pending) <=> (f.key \in alone.pending)]_vars

RecordedAction(file_key) ==
    IF file_key \in DOMAIN util_call.delimiter_decisions THEN util_call.delimiter_decisions[file_key] ELSE "none"

\* C23 as stated: when a file consistently delimited with a non-comma
\* delimiter is kept as it is, the table that is previewed, filled and
\* validated has the header fields of the detected delimiter as its columns.
C23_KeptFileIsParsedWithDetectedDelimiter ==
    Session({"loaded"}) =>
        \A i \in 1..Len(util_call.tables) :
            \A f \in BatchFiles :
                (/\ f.key = util_call.tables[i].key
                 /\ f.file.delimiter # ","
                 /\ RecordedAction(f.key) = "keep") => util_call.tables[i].columns = f.file.header

ValidNonComma(f) == ~FailsOwnChecks(f.file) /\ f.file.delimiter # ","

C30_InvalidFilesOnlyGrow ==
    [][\/ ClearDecisions
       \/ ResetApp
       \/ \A file_key \in util_call.invalid_files : is_file_invalid(file_key, util_call'.invalid_files)]_vars

C30_Witness ==
    /\ AfterRun
    /\ util_call.uploads > 1
    /\ \E f \in BatchFiles : is_file_invalid(f.key, util_call.invalid_files) /\ ~FailsOwnChecks(f.file)

-----------------------------------------------------------------------------
(* Scenario A: the table "age,name" under the rules age (Integer, fill-value
   "Unknown") and name (String, Required), validated as uploaded and after the
   missing-value choices are applied *)

ScenarioRules(age_required) ==
    <<Rule(FIELD_2, age_required, "Integer", "", <<>>, <<"Unknown">>),
      Rule("name", "Required", "String", "", <<>>, <<>>)>>

ScenarioTable(ages) ==
    [cols |-> <<FIELD_2, "name">>, nrows |-> Len(ages),
     cells |-> [c \in {FIELD_2, "name"} |-> IF c = FIELD_2 THEN ages ELSE <<"Alice", "Bob", "Cara">>]]

\* the table of the scenario and its variants with other age cells; it is
\* handed to validate_table as it is (pc "validate_table") or goes through
\* step 4 and step 5 of main() (pc "step4")
InitScenario ==
    /\ cde_rules \in {ScenarioRules(req) : req \in RequiredFlags}
    /\ raw_df \in {ScenarioTable(ages) : ages \in [1..3 -> {"30", "40", "", "x"}]}
    /\ pc \in {"step4", "validate_table"}
    /\ prepared_df = IF pc = "validate_table" THEN raw_df ELSE NoTable
    /\ column_choices = [f \in {FIELD_2, "name"} |-> None]
    /\ enum_choice = [f \in {FIELD_2, "name"} |-> ""]
    /\ validated_output_df = NoTable
    /\ report_entries = <<>>
    /\ findings = NoFindings
    /\ errors_counter = 0
    /\ warnings_counter = 0
    /\ sanitized_offered = FALSE
    /\ previous_run = <<>>
    /\ fill_call = NoFillCall
    /\ util_call = NoUtilCall

SpecScenario == InitScenario /\ [][Next]_vars

ScenarioA == cde_rules = ScenarioRules("Required") /\ raw_df = ScenarioTable(<<"30", "", "40">>)

\* C24 as stated: in scenario A, validating the table with the blank age
\* cell left unfilled yields ErrorCount = 1, and validating it after the
\* cell is filled with "Unknown" yields ErrorCount = 0.
C24_ScenarioA ==
    ScenarioA =>
        /\ (pc = "returned" /\ prepared_df = raw_df) => errors_counter = 1
        /\ (pc = "validated" /\ prepared_df.cells[FIELD_2] = <<"30", "Unknown", "40">>) => errors_counter = 0

-----------------------------------------------------------------------------
(* ReportCollector: the entries and their export *)

\* the longest report of the model
MaxEntries == 3

ReportTags == {"markdown", "success", "error", "warning", "header", "subheader"}

ReportMessages == {"Step 5", "1 error"}

InitReport ==
    /\ PipelineIdle
    /\ pc = "report"
    /\ util_call = NoUtilCall

ReportIdle ==
    UNCHANGED <<cde_rules, raw_df, column_choices, enum_choice, prepared_df, validated_output_df,
                findings, errors_counter, warnings_counter, sanitized_offered, previous_run,
                pc, fill_call>>

\* ReportCollector.add_markdown, add_success, add_error, add_warning,
\* add_header, add_subheader
AddMessage ==
    /\ pc = "report"
    /\ Len(report_entries) < MaxEntries
    /\ \E tag \in ReportTags, msg \in ReportMessages :
          /\ report_entries' = Append(report_entries, <<tag, msg>>)
          /\ util_call' = [op |-> "add_" \o tag, msg |-> msg, entries_before |-> report_entries]
    /\ ReportIdle

\* ReportCollector.add_divider
AddDivider ==
    /\ pc = "report"
    /\ Len(report_entries) < MaxEntries
    /\ report_entries' = Append(report_entries, <<"divider", None>>)
    /\ util_call' = [op |-> "add_divider", msg |-> None, entries_before |-> report_entries]
    /\ ReportIdle

\* ReportCollector.get_log
GetLog ==
    /\ pc = "report"
    /\ util_call' = [op |-> "get_log", report_content |-> get_log(report_entries),
                     entries_before |-> report_entries]
    /\ UNCHANGED report_entries
    /\ ReportIdle

\* ReportCollector.reset
ResetReport ==
    /\ pc = "report"
    /\ report_entries' = <<>>
    /\ util_call' = [op |-> "reset", entries_before |-> report_entries]
    /\ ReportIdle

NextReport == AddMessage \/ AddDivider \/ GetLog \/ ResetReport

SpecReport == InitReport /\ [][NextReport]_vars

\* the export of one entry as the claim words it
StatedLine(entry) ==
    CASE entry[1] = "header"    -> "# " \o entry[2] \o "\n"
      [] entry[1] = "subheader" -> "## " \o entry[2] \o "\n"
      [] entry[1] = "divider"   -> "------------------------------------------------------------\n"
      [] OTHER                  -> entry[2] \o "\n"

StatedLog(entries) ==
    LET F[i \in 0..Len(entries)] == IF i = 0 THEN "" ELSE F[i - 1] \o StatedLine(entries[i])
    IN  F[Len(entries)]

AddOps == {"add_" \o tag : tag \in ReportTags} \cup {"add_divider"}

\* C25 as stated: every add_* call appends exactly one tagged entry at the
\* end and leaves the earlier entries unchanged, only reset empties the
\* report, and get_log exports every entry in append order: headers as
\* '# msg', subheaders as '## msg', dividers as 60 dashes, all other entries
\* as plain lines.
C25_ReportIsAppendOnlyAndExportedWhole ==
    /\ util_call.op \in AddOps =>
          /\ Len(report_entries) = Len(util_call.entries_before) + 1
          /\ SubSeq(report_entries, 1, Len(util_call.entries_before)) = util_call.entries_before
          /\ "add_" \o report_entries[Len(report_entries)][1] = util_call.op
          /\ report_entries[Len(report_entries)][2] = util_call.msg
    /\ util_call.op = "reset" => report_entries = <<>>
    /\ util_call.op = "get_log" =>
          /\ report_entries = util_call.entries_before
          /\ util_call.report_content = StatedLog(report_entries)

-----------------------------------------------------------------------------
(* utils/template_files.py: the template of each table of the CDE *)

\* the most rows of the CDE dataframe
MaxTemplateFields == 2

\* Series.astype(str) and str() of one cell: a missing cell reads 'nan'
astype_str(cell) == IF cell = PD_NA THEN "nan" ELSE cell

validation_row_regex_verbatim(data_types, validation_values) ==
    [i \in 1..Len(data_types) |->
        IF Lower(Strip(data_types[i])) \in {"enum", "regex"}
        THEN IF validation_values[i] = PD_NA THEN "[]" ELSE astype_str(validation_values[i])
        ELSE "Validation:" \o data_types[i]]

\* build_templates_zip: the loop that fills validation_row
validation_row(data_types, validation_values) ==
    [i \in 1..Len(data_types) |->
        IF Lower(Strip(data_types[i])) = "enum"
        THEN IF validation_values[i] = PD_NA THEN "[]" ELSE astype_str(validation_values[i])
        ELSE "Validation:" \o data_types[i]]

\* the rows of cde_dataframe whose Table is table_name, in their order
TableCde(cde_dataframe, table_name) ==
    SelectSeq(cde_dataframe, LAMBDA row : row.Table = table_name)

\* build_templates_zip; the archive is the function from each table name to
\* its member {table_name}.csv (the members are written in sorted order);
\* number_of_rows is assigned inside the loop only, so the return statement
\* raises UnboundLocalError when no row names a table
build_templates_zip(cde_dataframe) ==
    LET unique_tables == {cde_dataframe[i].Table : i \in 1..Len(cde_dataframe)} \ {PD_NA}
        Column(table_cde, name) == [i \in 1..Len(table_cde) |-> table_cde[i][name]]
        StrColumn(table_cde, name) == [i \in 1..Len(table_cde) |-> astype_str(table_cde[i][name])]
        rows_to_write(table_cde) ==
            <<StrColumn(table_cde, "Field"),
              StrColumn(table_cde, "Description"),
              StrColumn(table_cde, "DataType"),
              StrColumn(table_cde, "Required"),
              validation_row(StrColumn(table_cde, "DataType"), Column(table_cde, "Validation")),
              StrColumn(table_cde, "FillNull")>>
        member(table_name) ==
            LET rows == rows_to_write(TableCde(cde_dataframe, table_name))
            IN  [rows |-> rows,
                 csv_content |-> to_csv([header |-> rows[1], rows |-> Tail(rows)], ",")]
    IN  IF unique_tables = {}
        THEN [outcome |-> "raises", archive |-> <<>>, number_of_rows |-> 0]
        ELSE [outcome |-> "returns",
              archive |-> [table_name \in unique_tables |-> member(table_name)],
              number_of_rows |-> 6]

\* rows of the CDE: two tables or none, fields in either order, the type
\* spelled as in the CDE or with other case and blanks, Validation present
\* or missing
CdeTemplateRows ==
    {[Table |-> table, Field |-> field, Description |-> "about " \o field,
      DataType |-> data_type, Required |-> "Required", Validation |-> validation,
      FillNull |-> "['NA', 'Unknown']"] :
        table \in {"SUBJECT", "SAMPLE", PD_NA}, field \in {"age", "sex"},
        data_type \in {"Enum", " enum ", "Regex", "String"},
        validation \in {"['a', 'b']", PD_NA}}

CdeDataframes == UNION {[1..n -> CdeTemplateRows] : n \in 0..MaxTemplateFields}

InitTemplates ==
    /\ PipelineIdle
    /\ pc = "templates"
    /\ util_call \in {[op |-> "build_templates_zip", cde_dataframe |-> frame, done |-> FALSE,
                       result |-> None] : frame \in CdeDataframes}

BuildTemplates ==
    /\ pc = "templates"
    /\ util_call.op = "build_templates_zip"
    /\ ~util_call.done
    /\ util_call' = [util_call EXCEPT !.done = TRUE,
                                      !.result = build_templates_zip(util_call.cde_dataframe)]
    /\ UNCHANGED <<pipeline_vars, fill_call>>

NextTemplates == BuildTemplates

SpecTemplates == InitTemplates /\ [][NextTemplates]_vars

Built == util_call.op = "build_templates_zip" /\ util_call.done /\ util_call.result.outcome = "returns"

\* every row of the template of table_name has one entry per field of the
\* table, and the i-th entry of each row belongs to the i-th field
SixRowsInFieldOrder(table_name) ==
    LET table_cde == TableCde(util_call.cde_dataframe, table_name)
        rows == util_call.result.archive[table_name].rows
    IN  /\ Len(rows) = 6
        /\ util_call.result.number_of_rows = 6
        /\ \A r \in 1..6 : Len(rows[r]) = Len(table_cde)
        /\ \A i \in 1..Len(table_cde) :
              /\ rows[1][i] = astype_str(table_cde[i].Field)
              /\ rows[2][i] = astype_str(table_cde[i].Description)
              /\ rows[3][i] = astype_str(table_cde[i].DataType)
              /\ rows[4][i] = astype_str(table_cde[i].Required)
              /\ rows[6][i] = astype_str(table_cde[i].FillNull)

\* the entry of the validation row that `verbatim_types` and `missing` stand for
ValidationRowIs(table_name, verbatim_types, missing) ==
    LET table_cde == TableCde(util_call.cde_dataframe, table_name)
        rows == util_call.result.archive[table_name].rows
    IN  \A i \in 1..Len(table_cde) :
            rows[5][i] = IF Lower(Strip(table_cde[i].DataType)) \in verbatim_types
                         THEN IF table_cde[i].Validation = PD_NA THEN missing
                              ELSE table_cde[i].Validation
                         ELSE "Validation:" \o table_cde[i].DataType

\* C26 as stated: in every template the validation row holds the
\* Validation of the rule verbatim when the data type is Enum or Regex and
\* 'Validation:{DataType}' for every other type; all six rows have one entry
\* per field of the table, in the field order.
C26_ValidationRowAsStated ==
    Built => \A table_name \in DOMAIN util_call.result.archive :
                /\ ValidationRowIs(table_name, {"enum", "regex"}, "nan")
                /\ SixRowsInFieldOrder(table_name)

\* C26 amended: in every template the validation row holds the Validation of
\* the rule verbatim when the data type is Enum (any case, blanks around it
\* ignored; '[]' when that Validation is missing) and 'Validation:{DataType}'
\* for every other type, Regex included; all six rows have one entry per
\* field of the table, in the field order.
C26_ValidationRowOfEnumOnly ==
    Built => \A table_name \in DOMAIN util_call.result.archive :
                /\ ValidationRowIs(table_name, {"enum"}, "[]")
                /\ SixRowsInFieldOrder(table_name)

\* a template of two fields, one Enum with its Validation and one Regex
C26_Witness ==
    /\ Built
    /\ \E table_name \in DOMAIN util_call.result.archive :
          LET table_cde == TableCde(util_call.cde_dataframe, table_name)
          IN  /\ Len(table_cde) = 2
              /\ table_cde[1].DataType = "Regex" /\ table_cde[1].Validation # PD_NA
              /\ table_cde[2].DataType = "Enum" /\ table_cde[2].Validation # PD_NA
              /\ util_call.result.archive[table_name].rows[5] = <<"Validation:Regex", "['a', 'b']">>

-----------------------------------------------------------------------------
(* utils/validate.py: reading the valid categories with retries *)

\* the largest max_tries of the model
MaxTries == 3

EXPECTED_STATUS == "Ok: found in CDE_current"

\* Series.fillna("").astype(str).str.strip() of one Status cell
StatusText(cell) == IF cell = PD_NA THEN "" ELSE Strip(cell)

get_invalid_status_rows_transient_is_hard(df_with_status, expected_status, transient_statuses) ==
    LET status_series == [i \in 1..Len(df_with_status) |-> StatusText(df_with_status[i])]
        Transient(i) == \E t \in 1..Len(transient_statuses) : status_series[i] = transient_statuses[t]
    IN  [invalid_rows |-> {i \in 1..Len(df_with_status) : status_series[i] # expected_status},
         transient_rows |-> {i \in 1..Len(df_with_status) : Transient(i)},
         hard_invalid_rows |-> {i \in 1..Len(df_with_status) : status_series[i] # expected_status}]

\* get_invalid_status_rows; a frame is the sequence of its Status cells and
\* each result is the set of the selected row positions
get_invalid_status_rows(df_with_status, expected_status, transient_statuses) ==
    LET status_series == [i \in 1..Len(df_with_status) |-> StatusText(df_with_status[i])]
        Transient(i) == \E t \in 1..Len(transient_statuses) : status_series[i] = transient_statuses[t]
    IN  [invalid_rows |-> {i \in 1..Len(df_with_status) : status_series[i] # expected_status},
         transient_rows |-> {i \in 1..Len(df_with_status) : Transient(i)},
         hard_invalid_rows |-> {i \in 1..Len(df_with_status) :
                                   status_series[i] # expected_status /\ ~Transient(i)}]

\* frames the loader can return: no row, all rows as expected (also with
\* blanks around the text), rows still loading, missing or blank statuses,
\* a status that is neither expected nor loading
StatusFrames ==
    {<<>>, <<EXPECTED_STATUS>>, <<EXPECTED_STATUS, " " \o EXPECTED_STATUS \o "\n">>,
     <<"Loading...">>, <<EXPECTED_STATUS, PD_NA>>, <<" ">>,
     <<"Not found">>, <<"Loading...", "Not found">>}

TransientLists == {<<"Loading...", "">>, <<"Loading...">>}

\* last_df before the first pass of the loop, and the result before the return
NoFrame == <<None>>

\* read_valid_categories_with_status_retry is called; attempt_index is the
\* loop variable, calls the frames load_df_with_status_fn has returned,
\* slept_after the attempts that were followed by time.sleep
InitRetry ==
    /\ PipelineIdle
    /\ pc = "retry"
    /\ util_call \in {[op |-> "read_valid_categories_with_status_retry",
                       max_tries |-> max_tries, expected_status |-> EXPECTED_STATUS,
                       transient_statuses |-> transient_statuses,
                       position |-> "for", attempt_index |-> 1, calls |-> <<>>,
                       slept_after |-> {}, last_df |-> NoFrame, result |-> NoFrame] :
                          max_tries \in 0..MaxTries, transient_statuses \in TransientLists}

\* one pass of the loop body up to the return or the sleep
LoadAttempt ==
    /\ pc = "retry"
    /\ util_call.position = "for"
    /\ util_call.attempt_index <= util_call.max_tries
    /\ \E last_df \in StatusFrames :
          LET status == get_invalid_status_rows(last_df, util_call.expected_status,
                                                util_call.transient_statuses)
              loaded == [util_call EXCEPT !.last_df = last_df, !.calls = Append(@, last_df)]
          IN  util_call' =
                  IF status.invalid_rows = {} \/ status.hard_invalid_rows # {}
                  THEN [loaded EXCEPT !.position = "returned", !.result = last_df]
                  ELSE IF util_call.attempt_index < util_call.max_tries
                  THEN [loaded EXCEPT !.position = "sleep"]
                  ELSE [loaded EXCEPT !.attempt_index = @ + 1]
    /\ UNCHANGED <<pipeline_vars, fill_call>>

\* time.sleep(sleep_seconds), then the next iteration
Sleep ==
    /\ pc = "retry"
    /\ util_call.position = "sleep"
    /\ util_call' = [util_call EXCEPT !.slept_after = @ \cup {util_call.attempt_index},
                                      !.attempt_index = @ + 1, !.position = "for"]
    /\ UNCHANGED <<pipeline_vars, fill_call>>

\* the return after the loop; last_df is unbound when the loop had no pass
ReturnLast ==
    /\ pc = "retry"
    /\ util_call.position = "for"
    /\ util_call.attempt_index > util_call.max_tries
    /\ util_call' = IF util_call.calls = <<>>
                    THEN [util_call EXCEPT !.position = "raised"]
                    ELSE [util_call EXCEPT !.position = "returned", !.result = util_call.last_df]
    /\ UNCHANGED <<pipeline_vars, fill_call>>

NextRetry == LoadAttempt \/ Sleep \/ ReturnLast

SpecRetry == InitRetry /\ [][NextRetry]_vars

\* the call runs on: the loader and time.sleep return
SpecRetryFair == SpecRetry /\ WF_vars(NextRetry)

\* the frame ends the retries: every status is the expected one, or some
\* status is neither expected nor transient (statuses read as the code
\* reads them: missing as '', blanks around the text dropped)
EndsRetries(frame) ==
    LET Status(i) == StatusText(frame[i])
        IsTransient(i) == \E t \in 1..Len(util_call.transient_statuses) :
                              Status(i) = util_call.transient_statuses[t]
    IN  \/ \A i \in 1..Len(frame) : Status(i) = util_call.expected_status
        \/ \E i \in 1..Len(frame) : Status(i) # util_call.expected_status /\ ~IsTransient(i)

RetryReturned == util_call.op = "read_valid_categories_with_status_retry" /\ util_call.position = "returned"

\* C29: for max_tries >= 1 the call terminates; the loader has then been
\* invoked exactly k times, k the first attempt whose frame has all statuses
\* expected or some status neither expected nor transient, or max_tries if
\* there is none; the frame of attempt k is returned; the call has slept
\* after each attempt before k and after no other.
C29_RetryTerminatesAfterKAttempts ==
    /\ [](RetryReturned =>
            LET k == Len(util_call.calls)
            IN  /\ k \in 1..util_call.max_tries
                /\ \A i \in 1..(k - 1) : ~EndsRetries(util_call.calls[i])
                /\ EndsRetries(util_call.calls[k]) \/ k = util_call.max_tries
                /\ util_call.result = util_call.calls[k]
                /\ util_call.slept_after = 1..(k - 1))
    /\ [](util_call.op = "read_valid_categories_with_status_retry" =>
            /\ util_call.position # "raised" \/ util_call.max_tries = 0
            /\ util_call.slept_after \subseteq 1..(util_call.max_tries - 1))
    /\ [](util_call.max_tries >= 1 => <>RetryReturned)

\* three attempts with transient statuses only, two sleeps, the third frame returned
C29_Witness ==
    /\ RetryReturned
    /\ util_call.max_tries = 3
    /\ Len(util_call.calls) = 3
    /\ ~EndsRetries(util_call.calls[3])
    /\ util_call.slept_after = {1, 2}
    /\ util_call.result = util_call.calls[3]

====
